---- MODULE Spec2Model ----
(***************************************************************************)
(* The single-flight enhancement request pipeline of prompt_enhancer.py    *)
(* (class OptimizedCodingEnglishEnhancer).                                 *)
(*                                                                         *)
(* Threads: the Tk main loop ("ui"), which runs the button handler         *)
(* _enhance_text and every root.after callback; the keyboard listener     *)
(* thread ("hk"), which runs _enhance_selected_text; and the workers of    *)
(* the ThreadPoolExecutor, one per submitted task.  A step of the model    *)
(* is one access to state shared between threads, together with the        *)
(* thread-local statements around it.                                      *)
(*                                                                         *)
(* Texts are sequences of one-character strings.                           *)
(***************************************************************************)
EXTENDS Integers, Sequences, FiniteSets, TLC

\* ------------------------------------------------------------------ bounds
\* Calls of the entry points per behaviour: every call, accepted or not, is
\* a request, with an id in 1..MaxRequests.
MaxRequests == 2

\* Fragments a text handed to _clean_text is made of, at most.
MaxFragments == 3

\* Files in each directory of the codebase.
MaxFilesPerDir == 6

\* Paths an index may list.
MaxIndexPaths == 12

\* Fragments a request text is made of.
MaxTokens == 4

\* ------------------------------------------------------- program constants
\* self._enhancement_history[:10]
HistoryCap == 10
\* ThreadPoolExecutor(max_workers=3, ...)
MaxWorkers == 3
\* "if len(relevant_files) >= 10"
FileCap == 10
\* f.read(512)
SampleSize == 512
\* "format up to 10 entries"
IndexCap == 10

Requests == 1 .. MaxRequests

\* The programs that implement the pipeline.
Variants == { "prompt_enhancer", "english_enhancer", "test_enhancer" }
Callers == {"ui", "hk"}

VARIABLES
    _is_enhancing,          \* self._is_enhancing
    _enhancement_history,   \* self._enhancement_history
    history_file,           \* content of enhancement_history.json
    _api_key,               \* self._api_key
    _groq_client,           \* self._groq_client: "None" or the key it was built from
    _thread_pool,           \* work queue of self._thread_pool: submitted, not started
    after_queue,            \* root.after(0, ...) callbacks not yet run, in order
    animate_timers,         \* requests whose _animate_status chain has a root.after(350, ...) pending
    status_label,           \* text of self.status_label
    output_text,            \* text of self.output_text
    clipboard,              \* the system clipboard
    cpc,                    \* cpc[c]: position of caller thread c in its handler
    creq,                   \* creq[c]: request the handler of c is working on (0: none)
    nreq,                   \* number of requests (calls of the entry points) so far
    path,                   \* path[r]: "button" or "hotkey" ("none": id not used yet)
    wpc,                    \* wpc[r]: position of the worker task of request r
    hpc,                    \* hpc[r]: position of the _add_to_history call of request r
    enhanced,               \* enhanced[r]: value returned by _enhance_with_groq
    sliced,                 \* sliced[r]: the evaluated self._enhancement_history[:10]
    api_calls,              \* api_calls[r]: chat.completions.create invocations of r
    outcome,                \* outcome[r]: how the call of r, then its worker, ended
    shown,                  \* shown[r]: the message the UI displayed for r
    last_insert,            \* the text of the latest list.insert(0, text), << >> before the first
    message_content,        \* completion.choices[0].message.content, the argument of _clean_text
    cleaned,                \* << >>, or <<t>> once the call has returned t
    _codebase_path,         \* self._codebase_path, << >> for None
    is_dir,                 \* os.path.isdir(self._codebase_path)
    keywords,               \* the keyword set handed to _find_relevant_files
    walk_order,             \* the directories in the order os.walk yields them
    scan_pc,                \* where the call of _get_enhancement_prompt is
    walk,                   \* [dir, file]: the directory yielded and the next file in it (0: none)
    relevant_files,         \* relevant_files of _find_relevant_files
    examined,               \* the file of the last loop iteration and what was done with it
    context_str,            \* what _find_relevant_files returned: relative paths, << >> for ""
    prompt,                 \* the prompt assembled, as its sections in order
    index_file,             \* <root>/.enhancer_cache/index.json: missing, malformed, or a mapping
    lookup_pc,              \* where the index lookup is
    lookup_keywords,        \* the keywords of the request being looked up
    pending_keywords,       \* the keywords the lookup has still to go through
    lookup_files,           \* the relevant-file accumulator of the lookup
    lookup_block,           \* the entries of the block returned, << >> for ""
    lookup_status,          \* the status text the lookup surfaced
    request_text,           \* the text handed to _extract_keywords_from_prompt
    extracted,              \* << >>, or <<K>> once the call has returned the set K
    client_pc,              \* where the worker is in _enhance_with_groq and the groq_client property
    client_key,             \* the self._api_key the worker read for Groq(api_key=...)
    client_got,             \* what the groq_client property returned to the worker
    save_pc,                \* where the UI thread is in _save_api_key
    new_api_key,            \* new_api_key of _save_api_key
    config_file,            \* content of self._config_file on disk: "missing", "partial" or a configuration
    temp_file,              \* content of the .tmp file next to it
    save_config_pc,         \* where _save_config is; "crashed" after the process died inside it
    config_mem,             \* the configuration held in memory
    config_old,             \* the content of the config file when the save began
    config_new,             \* the configuration the save is writing
    variant,                \* variant[v]: the in-flight flag of program v, its workers in flight, what became of the last request
    vreq,                   \* requests made of the variants so far
    t_running,              \* test_enhancer.py: the calls of enhance_with_groq in flight, per entry point
    t_after,                \* test_enhancer.py: the arguments of the _display_result callbacks not yet run
    t_output,               \* test_enhancer.py: text of self.output_text
    t_status,               \* test_enhancer.py: text of self.status_label
    t_clipboard             \* test_enhancer.py: what the program copied to the clipboard

main_vars == << _is_enhancing, _enhancement_history, history_file, _api_key,
           _groq_client, _thread_pool, after_queue, animate_timers,
           status_label, output_text, clipboard, cpc, creq,
           nreq, path, wpc, hpc, enhanced, sliced, api_calls, outcome, shown,
           last_insert >>

\* The variables of the calls that are modelled on their own.
clean_vars == << message_content, cleaned >>

context_vars == << _codebase_path, is_dir, keywords, walk_order, scan_pc, walk,
                   relevant_files, examined, context_str, prompt >>

lookup_vars == << index_file, lookup_pc, lookup_keywords, pending_keywords,
                  lookup_files, lookup_block, lookup_status >>

keyword_vars == << request_text, extracted >>

client_vars == << client_pc, client_key, client_got, save_pc, new_api_key >>

config_vars == << config_file, temp_file, save_config_pc, config_mem, config_old, config_new >>

variant_vars == << variant, vreq, t_running, t_after, t_output, t_status, t_clipboard >>

aux_vars == << clean_vars, context_vars, lookup_vars, keyword_vars, client_vars, config_vars, variant_vars >>

vars == << main_vars, aux_vars >>

\* ------------------------------------------------------------------- texts
IsSpace(c) == c \in {" ", "\t", "\n"}

RECURSIVE lstrip(_)
lstrip(s) == IF s # << >> /\ IsSpace(Head(s)) THEN lstrip(Tail(s)) ELSE s

RECURSIVE rstrip(_)
rstrip(s) ==
    IF s # << >> /\ IsSpace(s[Len(s)]) THEN rstrip(SubSeq(s, 1, Len(s) - 1)) ELSE s

\* str.strip()
strip(s) == rstrip(lstrip(s))

\* The first n elements of s: s[:n]
Take(s, n) == SubSeq(s, 1, IF Len(s) < n THEN Len(s) ELSE n)

\* A digit naming request r, so that results of different requests differ.
Digit(r) == <<"1", "2", "3", "4", "5">>[r]

\* What the button's input box or the clipboard may hold.
Inputs == { << >>, <<" ">>, <<"x">> }

\* What message.content of the completion for request r may be.
RawResponses(r) == { << >>, <<" ">>, <<" ", Digit(r), " ">> }

\* An entry of a history file written by an earlier run.
OldEntry == <<"o">>

RECURSIVE Repeat(_, _)
Repeat(x, n) == IF n = 0 THEN << >> ELSE <<x>> \o Repeat(x, n - 1)

\* The history files the program may find at start-up: none or an empty
\* one, a full one, and one with an entry too many (_load_history takes the
\* list as it is in the file, of any length).
LoadedHistories ==
    { Repeat(OldEntry, n) : n \in {0, HistoryCap, HistoryCap + 1} }

\* ---------------------------------------------------------- _clean_text
\* re.IGNORECASE, for the letters the two think patterns name.
Lower(c) ==
    CASE c = "T" -> "t" [] c = "H" -> "h" [] c = "I" -> "i"
      [] c = "N" -> "n" [] c = "K" -> "k" [] OTHER -> c

\* s[i ..] starts with the literal p, whatever the case of s.
MatchesAt(s, i, p) ==
    /\ i >= 1
    /\ i + Len(p) - 1 <= Len(s)
    /\ \A k \in 1 .. Len(p) : Lower(s[i + k - 1]) = p[k]

\* The least position j >= i where s has the literal p, 0 when there is none.
FindFrom(s, i, p) ==
    LET hits == { j \in i .. Len(s) : MatchesAt(s, j, p) }
    IN  IF hits = {} THEN 0 ELSE CHOOSE j \in hits : \A h \in hits : j <= h

ThinkOpen == <<"<", "t", "h", "i", "n", "k", ">">>
ThinkClose == <<"<", "/", "t", "h", "i", "n", "k", ">">>

\* THINK_TAG_PATTERN.sub('', s) from position i on: r'<think>.*?</think>',
\* DOTALL | IGNORECASE; non-overlapping matches, left to right, each ending
\* at the nearest closing tag.
RECURSIVE SubThinkTag(_, _)
SubThinkTag(s, i) ==
    IF i > Len(s) THEN << >>
    ELSE LET close == IF MatchesAt(s, i, ThinkOpen)
                      THEN FindFrom(s, i + Len(ThinkOpen), ThinkClose)
                      ELSE 0
         IN  IF close # 0
             THEN SubThinkTag(s, close + Len(ThinkClose))
             ELSE <<s[i]>> \o SubThinkTag(s, i + 1)

\* Where r'</?think' matched at i ends (the position after "think"), 0 if it
\* does not match there.
TagNameEnd(s, i) ==
    IF MatchesAt(s, i, <<"<", "/", "t", "h", "i", "n", "k">>) THEN i + 7
    ELSE IF MatchesAt(s, i, <<"<", "t", "h", "i", "n", "k">>) THEN i + 6
    ELSE 0

\* THINK_OPEN_CLOSE_PATTERN.sub('', s) from position i on: r'</?think[^>]*>'.
RECURSIVE SubThinkOpenClose(_, _)
SubThinkOpenClose(s, i) ==
    IF i > Len(s) THEN << >>
    ELSE LET k == TagNameEnd(s, i)
             gt == IF k = 0 THEN 0 ELSE FindFrom(s, k, <<">">>)
         IN  IF gt # 0
             THEN SubThinkOpenClose(s, gt + 1)
             ELSE <<s[i]>> \o SubThinkOpenClose(s, i + 1)

\* The end of the whitespace run that starts at i (i - 1 when s[i] is none).
RECURSIVE SpaceRunEnd(_, _)
SpaceRunEnd(s, i) ==
    IF i <= Len(s) /\ IsSpace(s[i]) THEN SpaceRunEnd(s, i + 1) ELSE i - 1

\* MULTIPLE_NEWLINES_PATTERN.sub('\n\n', s) from position i on: r'\n\s*\n',
\* \s* greedy, so a match ends at the last newline of the whitespace run.
RECURSIVE SubMultipleNewlines(_, _)
SubMultipleNewlines(s, i) ==
    IF i > Len(s) THEN << >>
    ELSE LET nls == IF s[i] = "\n"
                    THEN { j \in (i + 1) .. SpaceRunEnd(s, i + 1) : s[j] = "\n" }
                    ELSE {}
         IN  IF nls # {}
             THEN LET last == CHOOSE j \in nls : \A h \in nls : h <= j
                  IN  <<"\n", "\n">> \o SubMultipleNewlines(s, last + 1)
             ELSE <<s[i]>> \o SubMultipleNewlines(s, i + 1)

IsBlank(c) == c \in {" ", "\t"}

\* MULTIPLE_SPACES_PATTERN.sub(' ', s) from position i on: r'[ \t]+'.
RECURSIVE SubMultipleSpaces(_, _)
SubMultipleSpaces(s, i) ==
    IF i > Len(s) THEN << >>
    ELSE IF IsBlank(s[i])
         THEN IF i > 1 /\ IsBlank(s[i - 1])
              THEN SubMultipleSpaces(s, i + 1)
              ELSE <<" ">> \o SubMultipleSpaces(s, i + 1)
         ELSE <<s[i]>> \o SubMultipleSpaces(s, i + 1)

\* _clean_text
_clean_text(text) ==
    LET t1 == SubThinkTag(text, 1)
        t2 == SubThinkOpenClose(t1, 1)
        t3 == SubMultipleNewlines(t2, 1)
        t4 == SubMultipleSpaces(t3, 1)
    IN  strip(t4)

\* ------------------------------------------------------------ initial state
\* No call of the functions modelled on their own is under way.
NoFile == [path |-> << >>, file |-> << >>, op |-> "none", content |-> << >>]

InitClean ==
    /\ message_content = << >>
    /\ cleaned = << >>

InitContext ==
    /\ _codebase_path = << >>
    /\ is_dir = FALSE
    /\ keywords = {}
    /\ walk_order = << >>
    /\ scan_pc = "idle"
    /\ walk = [dir |-> 0, file |-> 0]
    /\ relevant_files = {}
    /\ examined = NoFile
    /\ context_str = << >>
    /\ prompt = << >>

NoIndex == [state |-> "missing", keys |-> {}, files |-> << >>]

InitLookup ==
    /\ index_file = NoIndex
    /\ lookup_pc = "idle"
    /\ lookup_keywords = {}
    /\ pending_keywords = {}
    /\ lookup_files = {}
    /\ lookup_block = << >>
    /\ lookup_status = ""

InitKeywords ==
    /\ request_text = << >>
    /\ extracted = << >>

InitClient ==
    /\ client_pc = "idle"
    /\ client_key = ""
    /\ client_got = "None"
    /\ save_pc = "idle"
    /\ new_api_key = ""

InitConfig ==
    /\ config_file = "missing"
    /\ temp_file = "missing"
    /\ save_config_pc = "idle"
    /\ config_mem = "defaults"
    /\ config_old = "missing"
    /\ config_new = "defaults"

InitVariants ==
    /\ variant = [v \in Variants |-> [flag |-> FALSE, inflight |-> 0, last |-> "none"]]
    /\ vreq = 0
    /\ t_running = [button |-> 0, hotkey |-> 0]
    /\ t_after = << >>
    /\ t_output = ""
    /\ t_status = "Ready"
    /\ t_clipboard = ""

InitAux ==
    /\ InitClean
    /\ InitContext
    /\ InitLookup
    /\ InitKeywords
    /\ InitClient
    /\ InitConfig
    /\ InitVariants

\* __init__: the defaults, then _load_config (the key may be set or not) and
\* _load_history.
InitPipeline ==
    /\ _is_enhancing = FALSE
    /\ \E h \in LoadedHistories :
            /\ _enhancement_history = h
            /\ history_file = h
    /\ _api_key \in {"", "key"}
    /\ _groq_client = "None"
    /\ _thread_pool = << >>
    /\ after_queue = << >>
    /\ animate_timers = {}
    /\ status_label = "Ready."
    /\ output_text = << >>
    /\ clipboard = <<"x">>
    /\ cpc = [c \in Callers |-> "idle"]
    /\ creq = [c \in Callers |-> 0]
    /\ nreq = 0
    /\ path = [r \in Requests |-> "none"]
    /\ wpc = [r \in Requests |-> "none"]
    /\ hpc = [r \in Requests |-> "none"]
    /\ enhanced = [r \in Requests |-> << >>]
    /\ sliced = [r \in Requests |-> << >>]
    /\ api_calls = [r \in Requests |-> 0]
    /\ outcome = [r \in Requests |-> "none"]
    /\ shown = [r \in Requests |-> "none"]
    /\ last_insert = << >>

Init ==
    /\ InitPipeline
    /\ InitAux

\* The variables of the requests' workers and of the shared data they touch.
worker_vars == << wpc, hpc, enhanced, sliced, api_calls, outcome, _groq_client,
                  _enhancement_history, history_file, clipboard, last_insert >>

\* ------------------------------------------------------------ entry points
\* The in-flight test left out: no call is ever turned away.
InFlightNever(flag) == FALSE

\* "if self._is_enhancing: return", the first statement of both entry points.
InFlight(flag) == flag

\* "if not input_text" after .strip() / "if not text or not text.strip()".
NothingToEnhance(text) == text = << >> \/ strip(text) = << >>

\* Caller c goes on at pc.
Goto(c, pc) == cpc' = [cpc EXCEPT ![c] = pc]

\* A call of an entry point on caller c: it is request nreq + 1.
Call(c, kind) ==
    /\ cpc[c] = "idle"
    /\ nreq < MaxRequests
    /\ nreq' = nreq + 1
    /\ path' = [path EXCEPT ![nreq + 1] = kind]

\* The end of the call on caller c; how: what is recorded of request r.
Return(c, r, how) ==
    /\ cpc' = [cpc EXCEPT ![c] = "idle"]
    /\ creq' = [creq EXCEPT ![c] = 0]
    /\ outcome' = [outcome EXCEPT ![r] = how]

\* _animate_status: nothing unless a request is in flight; else the label
\* shows "Enhancing" followed by dot_count dots (the dots are not modelled)
\* and the next tick of the chain is scheduled with root.after(350, ...).
AnimateStatus(r) ==
    IF ~_is_enhancing
    THEN /\ animate_timers' = animate_timers \ {r}
         /\ UNCHANGED status_label
    ELSE /\ status_label' = "Enhancing"
         /\ animate_timers' = animate_timers \cup {r}

\* What a step of an entry point leaves alone, besides its caller's position.
CallerFrame ==
    /\ UNCHANGED aux_vars
    /\ UNCHANGED << output_text, shown, _api_key >>
    /\ UNCHANGED << hpc, enhanced, sliced, api_calls, _groq_client,
                    _enhancement_history, history_file, clipboard, last_insert >>

\* What both entry points return, on every path (a bare "return" or the end
\* of the function body): None.
ReturnValue(how) == "None"

\* A rejection that tells the user so in the status label.
RejectedWithStatus(c, r) ==
    /\ cpc' = [cpc EXCEPT ![c] = "idle"]
    /\ creq' = [creq EXCEPT ![c] = 0]
    /\ outcome' = [outcome EXCEPT ![r] = "rejected"]
    /\ status_label' = "Still enhancing"

\* The return of a call made while a request is in flight: a bare return,
\* nothing else.
Rejected(c, r) ==
    /\ Return(c, r, "rejected")
    /\ UNCHANGED status_label

\* _enhance_text: "if self._is_enhancing: return"
_enhance_text ==
    /\ Call("ui", "button")
    /\ IF InFlight(_is_enhancing)
       THEN Rejected("ui", nreq + 1)
       ELSE /\ Goto("ui", "et_read")
            /\ creq' = [creq EXCEPT !["ui"] = nreq + 1]
            /\ UNCHANGED << outcome, status_label >>
    /\ UNCHANGED << _is_enhancing, _thread_pool, after_queue, animate_timers, wpc >>
    /\ CallerFrame

\* The read of the input box with the flag set before the text is looked at.
EnhanceTextReadFlagFirst ==
    /\ cpc["ui"] = "et_read"
    /\ _is_enhancing' = TRUE
    /\ \E input_text \in Inputs :
         IF NothingToEnhance(input_text)
         THEN Return("ui", creq["ui"], "empty")
         ELSE /\ Goto("ui", "et_animate")
              /\ outcome' = [outcome EXCEPT ![creq["ui"]] = "accepted"]
              /\ UNCHANGED creq
    /\ UNCHANGED << _thread_pool, after_queue, animate_timers, status_label,
                    nreq, path, wpc >>
    /\ CallerFrame

\* _enhance_text: the read of the input box; with nothing in it the warning
\* box and return, else self._is_enhancing = True.
EnhanceTextRead ==
    /\ cpc["ui"] = "et_read"
    /\ \E input_text \in Inputs :
         IF NothingToEnhance(input_text)
         THEN /\ Return("ui", creq["ui"], "empty")
              /\ UNCHANGED _is_enhancing
         ELSE /\ Goto("ui", "et_animate")
              /\ _is_enhancing' = TRUE
              /\ outcome' = [outcome EXCEPT ![creq["ui"]] = "accepted"]
              /\ UNCHANGED creq
    /\ UNCHANGED << _thread_pool, after_queue, animate_timers, status_label,
                    nreq, path, wpc >>
    /\ CallerFrame

\* _enhance_text: self._animate_status(), called on the UI thread. When it
\* raises, the exception leaves _enhance_text: nothing catches it there.
EnhanceTextAnimate ==
    /\ cpc["ui"] = "et_animate"
    /\ \E raised \in BOOLEAN :
         IF raised
         THEN /\ Return("ui", creq["ui"], "raised")
              /\ UNCHANGED << animate_timers, status_label >>
         ELSE /\ AnimateStatus(creq["ui"])
              /\ Goto("ui", "et_submit")
              /\ UNCHANGED << creq, outcome >>
    /\ UNCHANGED << _is_enhancing, _thread_pool, after_queue, nreq, path, wpc >>
    /\ CallerFrame

\* self._thread_pool.submit(task of request r)
Submit(r) ==
    /\ _thread_pool' = Append(_thread_pool, r)
    /\ wpc' = [wpc EXCEPT ![r] = "queued"]

\* _enhance_text: self._thread_pool.submit(self._enhance_and_display_worker,
\* input_text). When it raises, the exception leaves _enhance_text.
EnhanceTextSubmit ==
    /\ cpc["ui"] = "et_submit"
    /\ \E raised \in BOOLEAN :
         IF raised
         THEN /\ Return("ui", creq["ui"], "raised")
              /\ UNCHANGED << _thread_pool, wpc >>
         ELSE /\ Submit(creq["ui"])
              /\ Return("ui", creq["ui"], "submitted")
    /\ UNCHANGED << _is_enhancing, after_queue, animate_timers, status_label,
                    nreq, path >>
    /\ CallerFrame

\* _enhance_selected_text: "if self._is_enhancing: return"
_enhance_selected_text ==
    /\ Call("hk", "hotkey")
    /\ IF InFlight(_is_enhancing)
       THEN Rejected("hk", nreq + 1)
       ELSE /\ Goto("hk", "es_paste")
            /\ creq' = [creq EXCEPT !["hk"] = nreq + 1]
            /\ UNCHANGED << outcome, status_label >>
    /\ UNCHANGED << _is_enhancing, _thread_pool, after_queue, animate_timers, wpc >>
    /\ CallerFrame

\* _enhance_selected_text: pyperclip.paste(), which may raise; with nothing
\* on the clipboard the status label says so (a widget call made on the
\* hotkey thread), else self._is_enhancing = True.
EnhanceSelectedPaste ==
    /\ cpc["hk"] = "es_paste"
    /\ \/ /\ Goto("hk", "es_except")
          /\ UNCHANGED << _is_enhancing, creq, outcome, status_label >>
       \/ \E text_to_enhance \in Inputs :
            IF NothingToEnhance(text_to_enhance)
            THEN /\ status_label' = "Clipboard is empty. Copy text first."
                 /\ Return("hk", creq["hk"], "empty")
                 /\ UNCHANGED _is_enhancing
            ELSE /\ Goto("hk", "es_after")
                 /\ _is_enhancing' = TRUE
                 /\ outcome' = [outcome EXCEPT ![creq["hk"]] = "accepted"]
                 /\ UNCHANGED << creq, status_label >>
    /\ UNCHANGED << _thread_pool, after_queue, animate_timers, nreq, path, wpc >>
    /\ CallerFrame

\* _enhance_selected_text: self.root.after(0, self._animate_status); an
\* exception goes to the handler of the enclosing try.
EnhanceSelectedAfter ==
    /\ cpc["hk"] = "es_after"
    /\ \E raised \in BOOLEAN :
         IF raised
         THEN /\ Goto("hk", "es_except")
              /\ UNCHANGED after_queue
         ELSE /\ after_queue' =
                    Append(after_queue, [kind |-> "animate", req |-> creq["hk"]])
              /\ Goto("hk", "es_submit")
    /\ UNCHANGED << _is_enhancing, _thread_pool, animate_timers, status_label,
                    creq, outcome, nreq, path, wpc >>
    /\ CallerFrame

\* _enhance_selected_text: self._thread_pool.submit(
\* self._enhance_and_copy_worker, text_to_enhance)
EnhanceSelectedSubmit ==
    /\ cpc["hk"] = "es_submit"
    /\ \E raised \in BOOLEAN :
         IF raised
         THEN /\ Goto("hk", "es_except")
              /\ UNCHANGED << _thread_pool, wpc, creq, outcome >>
         ELSE /\ Submit(creq["hk"])
              /\ Return("hk", creq["hk"], "submitted")
    /\ UNCHANGED << _is_enhancing, after_queue, animate_timers, status_label,
                    nreq, path >>
    /\ CallerFrame

\* _enhance_selected_text, "except Exception as e": the flag is cleared and
\* a red notification window is shown.
EnhanceSelectedExcept ==
    /\ cpc["hk"] = "es_except"
    /\ _is_enhancing' = FALSE
    /\ Return("hk", creq["hk"], "raised")
    /\ UNCHANGED << _thread_pool, after_queue, animate_timers, status_label,
                    nreq, path, wpc >>
    /\ CallerFrame

\* ----------------------------------------------------------------- workers
caller_vars == << cpc, creq, nreq, path >>

\* The tasks a pool thread is executing.
RunningWorkers == { r \in Requests : wpc[r] \notin {"none", "queued", "done"} }

\* A free thread of the pool takes the oldest submitted task.
WorkerStart ==
    /\ _thread_pool # << >>
    /\ Cardinality(RunningWorkers) < MaxWorkers
    /\ LET r == Head(_thread_pool)
       IN  wpc' = [wpc EXCEPT
                     ![r] = IF path[r] = "button" THEN "dw_enhance" ELSE "cw_client"]
    /\ _thread_pool' = Tail(_thread_pool)
    /\ UNCHANGED << _is_enhancing, after_queue, animate_timers, status_label,
                    output_text, shown, _api_key >>
    /\ UNCHANGED << hpc, enhanced, sliced, api_calls, outcome, _groq_client,
                    _enhancement_history, history_file, clipboard, last_insert >>
    /\ UNCHANGED aux_vars
    /\ UNCHANGED caller_vars

\* The property without its test of the key: a client is built from an
\* empty key too.
groq_clientAnyKey(constructed) ==
    IF _groq_client = "None"
    THEN IF constructed THEN _api_key ELSE "None"
    ELSE _groq_client

\* The groq_client property: the cached client, built first from the API
\* key when there is none and a key is set; Groq(api_key=...) may raise,
\* which the property swallows. The value is also the new self._groq_client.
groq_client(constructed) ==
    IF _groq_client = "None" /\ _api_key # ""
    THEN IF constructed THEN _api_key ELSE "None"
    ELSE _groq_client

\* What a worker step leaves alone besides the worker's own variables.
WorkerFrame ==
    /\ UNCHANGED aux_vars
    /\ UNCHANGED << _thread_pool, animate_timers, status_label, output_text,
                    shown, _api_key, last_insert >>
    /\ UNCHANGED caller_vars

\* _enhance_with_groq, "if not self.groq_client: raise ValueError(...)": the
\* worker of r goes on at pc_call, or at pc_exc with the ValueError.
EnhanceWithGroqCheck(r, pc_call, pc_exc) ==
    /\ \E constructed \in BOOLEAN :
         LET client == groq_client(constructed)
         IN  /\ _groq_client' = client
             /\ IF client = "None"
                THEN /\ wpc' = [wpc EXCEPT ![r] = pc_exc]
                     /\ outcome' = [outcome EXCEPT ![r] = "no_client"]
                ELSE /\ wpc' = [wpc EXCEPT ![r] = pc_call]
                     /\ UNCHANGED outcome
    /\ UNCHANGED << _is_enhancing, after_queue, hpc, enhanced, sliced, api_calls,
                    _enhancement_history, history_file, clipboard >>
    /\ WorkerFrame

\* _enhance_and_display_worker: self._enhance_with_groq(text), its check.
DisplayWorkerCheck(r) ==
    /\ wpc[r] = "dw_enhance"
    /\ EnhanceWithGroqCheck(r, "dw_call", "dw_exc_clear")

\* _enhance_with_groq, the try block: self.groq_client.chat.completions
\* .create(...) and _clean_text of its content. The property is read again;
\* without a client the attribute access raises. The call returns a
\* completion or raises; every exception becomes Exception("API Error: ...").
\* copies: the caller stores the result with pyperclip.copy, which may raise.
EnhanceWithGroqCall(r, pc_ok, pc_exc, copies) ==
    /\ \E constructed \in BOOLEAN :
         LET client == groq_client(constructed)
         IN  /\ _groq_client' = client
             /\ IF client = "None"
                THEN /\ wpc' = [wpc EXCEPT ![r] = pc_exc]
                     /\ outcome' = [outcome EXCEPT ![r] = "api_error"]
                     /\ UNCHANGED << api_calls, enhanced, clipboard >>
                ELSE /\ api_calls' = [api_calls EXCEPT ![r] = @ + 1]
                     /\ \/ /\ wpc' = [wpc EXCEPT ![r] = pc_exc]
                           /\ outcome' = [outcome EXCEPT ![r] = "api_error"]
                           /\ UNCHANGED << enhanced, clipboard >>
                        \/ \E content \in RawResponses(r) :
                             /\ enhanced' = [enhanced EXCEPT ![r] = _clean_text(content)]
                             /\ \/ /\ wpc' = [wpc EXCEPT ![r] = pc_ok]
                                   /\ outcome' = [outcome EXCEPT ![r] = "success"]
                                   /\ clipboard' = IF copies THEN _clean_text(content)
                                                   ELSE clipboard
                                \/ /\ copies
                                   /\ wpc' = [wpc EXCEPT ![r] = pc_exc]
                                   /\ outcome' = [outcome EXCEPT ![r] = "copy_error"]
                                   /\ UNCHANGED clipboard
    /\ UNCHANGED << _is_enhancing, after_queue, hpc, sliced, _enhancement_history,
                    history_file >>
    /\ WorkerFrame

\* _enhance_and_display_worker: enhanced = self._enhance_with_groq(text)
DisplayWorkerCall(r) ==
    /\ wpc[r] = "dw_call"
    /\ EnhanceWithGroqCall(r, "dw_clear", "dw_exc_clear", FALSE)

\* A worker that goes on at pc and leaves the flag as it is.
ClearFlagForgotten(r, pc) ==
    /\ wpc' = [wpc EXCEPT ![r] = pc]
    /\ UNCHANGED << _is_enhancing, after_queue, hpc, enhanced, sliced, api_calls,
                    outcome, _groq_client, _enhancement_history, history_file,
                    clipboard >>
    /\ UNCHANGED << _thread_pool, animate_timers, status_label, output_text,
                    shown, _api_key, last_insert >>
    /\ UNCHANGED aux_vars
    /\ UNCHANGED << cpc, creq, nreq, path >>

\* A worker's "self._is_enhancing = False"; it goes on at pc.
ClearFlag(r, pc) ==
    /\ _is_enhancing' = FALSE
    /\ wpc' = [wpc EXCEPT ![r] = pc]
    /\ UNCHANGED << after_queue, hpc, enhanced, sliced, api_calls, outcome,
                    _groq_client, _enhancement_history, history_file, clipboard >>
    /\ WorkerFrame

\* A worker's self.root.after(0, callback); it goes on at pc.
After(r, callback, pc) ==
    /\ after_queue' = Append(after_queue, [kind |-> callback, req |-> r])
    /\ wpc' = [wpc EXCEPT ![r] = pc]
    /\ UNCHANGED << _is_enhancing, enhanced, sliced, api_calls, outcome,
                    _groq_client, _enhancement_history, history_file, clipboard >>
    /\ WorkerFrame

\* _enhance_and_display_worker, success: self._is_enhancing = False
DisplayWorkerClear(r) ==
    /\ wpc[r] = "dw_clear"
    /\ ClearFlag(r, "dw_after")

\* _enhance_and_display_worker: self.root.after(0, self._display_result,
\* enhanced)
DisplayWorkerAfter(r) ==
    /\ wpc[r] = "dw_after"
    /\ After(r, "display_result", "done")
    /\ UNCHANGED hpc

\* An except block that calls the API once more before it gives up.
DisplayWorkerExceptRetry(r) ==
    /\ wpc[r] = "dw_exc_clear"
    /\ ClearFlag(r, IF api_calls[r] = 1 THEN "dw_call" ELSE "dw_exc_after")

\* _enhance_and_display_worker, except: self._is_enhancing = False
DisplayWorkerExceptClear(r) ==
    /\ wpc[r] = "dw_exc_clear"
    /\ ClearFlag(r, "dw_exc_after")

\* _enhance_and_display_worker, except: self.root.after(0, lambda:
\* messagebox.showerror("API Error", str(e)))
DisplayWorkerExceptAfter(r) ==
    /\ wpc[r] = "dw_exc_after"
    /\ After(r, "showerror", "dw_exc_exit")
    /\ UNCHANGED hpc

\* The end of an "except Exception as e" block: e is unbound, the worker
\* function returns.
ExceptExit(r) ==
    /\ wpc' = [wpc EXCEPT ![r] = "done"]
    /\ UNCHANGED << _is_enhancing, after_queue, hpc, enhanced, sliced, api_calls,
                    outcome, _groq_client, _enhancement_history, history_file,
                    clipboard >>
    /\ WorkerFrame

DisplayWorkerExceptExit(r) ==
    /\ wpc[r] = "dw_exc_exit"
    /\ ExceptExit(r)

\* Whether the variable e of the worker's except block is still bound: a
\* callback that names it runs on the UI thread, maybe after the block ended.
ExceptionBound(r) == wpc[r] \in {"dw_exc_exit", "cw_exc_exit"}

\* _enhance_and_copy_worker: "if not self.groq_client"
CopyWorkerClient(r) ==
    /\ wpc[r] = "cw_client"
    /\ EnhanceWithGroqCheck(r, "cw_enhance", "cw_nc_clear")

\* _enhance_and_copy_worker, no client: self._is_enhancing = False
CopyWorkerNoClientClear(r) ==
    /\ wpc[r] = "cw_nc_clear"
    /\ ClearFlag(r, "cw_nc_after")

\* _enhance_and_copy_worker, no client: self.root.after(0, lambda:
\* self.status_label.config(text="API Key is not set.")); return
CopyWorkerNoClientAfter(r) ==
    /\ wpc[r] = "cw_nc_after"
    /\ After(r, "status_no_key", "done")
    /\ UNCHANGED hpc

\* _enhance_and_copy_worker: self._enhance_with_groq(text), its check.
CopyWorkerCheck(r) ==
    /\ wpc[r] = "cw_enhance"
    /\ EnhanceWithGroqCheck(r, "cw_call", "cw_exc_clear")

\* _enhance_and_copy_worker: enhanced_text = self._enhance_with_groq(text);
\* pyperclip.copy(enhanced_text)
CopyWorkerCall(r) ==
    /\ wpc[r] = "cw_call"
    /\ EnhanceWithGroqCall(r, "cw_clear", "cw_exc_clear", TRUE)

\* _enhance_and_copy_worker, success: self._is_enhancing = False
CopyWorkerClear(r) ==
    /\ wpc[r] = "cw_clear"
    /\ ClearFlag(r, "cw_after")

\* "if not text or not text.strip(): return", the first statement of
\* _add_to_history: where the call for r starts.
AddToHistoryEntry(text) == IF NothingToEnhance(text) THEN "done" ELSE "insert"

\* _enhance_and_copy_worker: self.root.after(0, lambda: self.status_label
\* .config(text="Enhanced text copied!")), then the call of
\* self._add_to_history(enhanced_text) on the worker's thread.
CopyWorkerAfter(r) ==
    /\ wpc[r] = "cw_after"
    /\ LET entry == AddToHistoryEntry(enhanced[r])
       IN  /\ After(r, "status_copied", IF entry = "done" THEN "done" ELSE "cw_add")
           /\ hpc' = [hpc EXCEPT ![r] = entry]

\* _enhance_and_copy_worker, except: self._is_enhancing = False
CopyWorkerExceptClear(r) ==
    /\ wpc[r] = "cw_exc_clear"
    /\ ClearFlag(r, "cw_exc_after")

\* An except block that also records the failed request in the history.
CopyWorkerExceptAfterAdds(r) ==
    /\ wpc[r] = "cw_exc_after"
    /\ After(r, "status_error", "cw_add")
    /\ hpc' = [hpc EXCEPT ![r] = "insert"]

\* _enhance_and_copy_worker, except: self.root.after(0, lambda:
\* self.status_label.config(text=f"API Error: {e}"))
CopyWorkerExceptAfter(r) ==
    /\ wpc[r] = "cw_exc_after"
    /\ After(r, "status_error", "cw_exc_exit")
    /\ UNCHANGED hpc

CopyWorkerExceptExit(r) ==
    /\ wpc[r] = "cw_exc_exit"
    /\ ExceptExit(r)

\* --------------------------------------------------------- _add_to_history
\* _add_to_history(enhanced[r]) runs on the UI thread for a button request
\* (called by _display_result) and on the pool thread for a hotkey request.
HistoryFrame ==
    UNCHANGED << _is_enhancing, _thread_pool, after_queue, animate_timers,
                 status_label, output_text, shown, _api_key, _groq_client,
                 enhanced, api_calls, outcome, clipboard, nreq, path, aux_vars >>

HistoryStepFrame ==
    /\ HistoryFrame
    /\ UNCHANGED last_insert

\* list.append(text)
InsertLast(history, text) == history \o <<text>>

\* list.insert(0, text)
Insert0(history, text) == <<text>> \o history

\* history[:10]
Truncated(history) == Take(history, HistoryCap)

\* self._enhancement_history.insert(0, text)
AddToHistoryInsert(r) ==
    /\ hpc[r] = "insert"
    /\ _enhancement_history' = Insert0(_enhancement_history, enhanced[r])
    /\ last_insert' = enhanced[r]
    /\ hpc' = [hpc EXCEPT ![r] = "slice"]
    /\ UNCHANGED << history_file, sliced, wpc, cpc, creq >>
    /\ HistoryFrame

\* The right-hand side of
\* self._enhancement_history = self._enhancement_history[:10]
AddToHistorySlice(r) ==
    /\ hpc[r] = "slice"
    /\ sliced' = [sliced EXCEPT ![r] = Truncated(_enhancement_history)]
    /\ hpc' = [hpc EXCEPT ![r] = "store"]
    /\ UNCHANGED << _enhancement_history, history_file, wpc, cpc, creq >>
    /\ HistoryStepFrame

\* The assignment of
\* self._enhancement_history = self._enhancement_history[:10]
AddToHistoryStore(r) ==
    /\ hpc[r] = "store"
    /\ _enhancement_history' = sliced[r]
    /\ sliced' = [sliced EXCEPT ![r] = << >>]
    /\ hpc' = [hpc EXCEPT ![r] = "save"]
    /\ UNCHANGED << history_file, wpc, cpc, creq >>
    /\ HistoryStepFrame

\* _save_history: the file is overwritten with the history, unless open()
\* raises IOError, which is printed and swallowed.
_save_history(written) ==
    history_file' = IF written THEN _enhancement_history ELSE history_file

\* self._save_history(); self._update_history_listbox(); then the call
\* returns: to _display_result, which ends, or to the worker, which ends.
AddToHistorySave(r) ==
    /\ hpc[r] = "save"
    /\ \E written \in BOOLEAN : _save_history(written)
    /\ hpc' = [hpc EXCEPT ![r] = "done"]
    /\ IF path[r] = "button"
       THEN /\ cpc' = [cpc EXCEPT !["ui"] = "idle"]
            /\ creq' = [creq EXCEPT !["ui"] = 0]
            /\ UNCHANGED wpc
       ELSE /\ wpc' = [wpc EXCEPT ![r] = "done"]
            /\ UNCHANGED << cpc, creq >>
    /\ UNCHANGED << _enhancement_history, sliced >>
    /\ HistoryStepFrame

\* ---------------------------------------------------- UI thread callbacks
\* The Tk main loop runs one callback at a time, when no handler is running.
CallbackFrame ==
    UNCHANGED << _is_enhancing, _thread_pool, _api_key, nreq, path, wpc,
                 enhanced, sliced, api_calls, outcome, _groq_client,
                 _enhancement_history, history_file, clipboard, last_insert,
                 aux_vars >>

NextCallback(kind) ==
    /\ cpc["ui"] = "idle"
    /\ after_queue # << >>
    /\ Head(after_queue).kind = kind
    /\ after_queue' = Tail(after_queue)

\* self._animate_status, scheduled by _enhance_selected_text
CallbackAnimateStatus ==
    /\ NextCallback("animate")
    /\ AnimateStatus(Head(after_queue).req)
    /\ UNCHANGED << output_text, shown, hpc, cpc, creq >>
    /\ CallbackFrame

\* self._animate_status, the tick scheduled with root.after(350, ...)
TimerAnimateStatus(r) ==
    /\ cpc["ui"] = "idle"
    /\ r \in animate_timers
    /\ AnimateStatus(r)
    /\ UNCHANGED << after_queue, output_text, shown, hpc, cpc, creq >>
    /\ CallbackFrame

\* _display_result(enhanced): the output box, the status label, then
\* self._add_to_history(enhanced_text)
_display_result ==
    /\ NextCallback("display_result")
    /\ LET r == Head(after_queue).req
           entry == AddToHistoryEntry(enhanced[r])
       IN  /\ output_text' = enhanced[r]
           /\ status_label' = "Text enhanced successfully!"
           /\ shown' = [shown EXCEPT ![r] = "Text enhanced successfully!"]
           /\ hpc' = [hpc EXCEPT ![r] = entry]
           /\ IF entry = "done"
              THEN UNCHANGED << cpc, creq >>
              ELSE /\ cpc' = [cpc EXCEPT !["ui"] = "display"]
                   /\ creq' = [creq EXCEPT !["ui"] = r]
    /\ UNCHANGED animate_timers
    /\ CallbackFrame

\* What a callback that formats e displays: the message, or nothing when e
\* is no longer bound (the callback raises NameError, which Tk reports on
\* stderr).
ErrorMessage(r, message) == IF ExceptionBound(r) THEN message ELSE "NameError"

\* lambda: messagebox.showerror("API Error", str(e))
CallbackShowError ==
    /\ NextCallback("showerror")
    /\ LET r == Head(after_queue).req
       IN  shown' = [shown EXCEPT ![r] = ErrorMessage(r, "API Error")]
    /\ UNCHANGED << status_label, output_text, animate_timers, hpc, cpc, creq >>
    /\ CallbackFrame

\* lambda: self.status_label.config(text="Enhanced text copied!")
CallbackStatusCopied ==
    /\ NextCallback("status_copied")
    /\ LET r == Head(after_queue).req
       IN  /\ status_label' = "Enhanced text copied!"
           /\ shown' = [shown EXCEPT ![r] = "Enhanced text copied!"]
    /\ UNCHANGED << output_text, animate_timers, hpc, cpc, creq >>
    /\ CallbackFrame

\* lambda: self.status_label.config(text="API Key is not set.")
CallbackStatusNoKey ==
    /\ NextCallback("status_no_key")
    /\ LET r == Head(after_queue).req
       IN  /\ status_label' = "API Key is not set."
           /\ shown' = [shown EXCEPT ![r] = "API Key is not set."]
    /\ UNCHANGED << output_text, animate_timers, hpc, cpc, creq >>
    /\ CallbackFrame

\* lambda: self.status_label.config(text=f"API Error: {e}")
CallbackStatusError ==
    /\ NextCallback("status_error")
    /\ LET r == Head(after_queue).req
           message == ErrorMessage(r, "API Error: e")
       IN  /\ status_label' = IF message = "NameError" THEN status_label ELSE message
           /\ shown' = [shown EXCEPT ![r] = message]
    /\ UNCHANGED << output_text, animate_timers, hpc, cpc, creq >>
    /\ CallbackFrame

\* ----------------------------------------------------------- specification
ButtonHandler ==
    \/ EnhanceTextRead
    \/ EnhanceTextAnimate
    \/ EnhanceTextSubmit

HotkeyHandler ==
    \/ EnhanceSelectedPaste
    \/ EnhanceSelectedAfter
    \/ EnhanceSelectedSubmit
    \/ EnhanceSelectedExcept

Worker(r) ==
    \/ DisplayWorkerCheck(r)
    \/ DisplayWorkerCall(r)
    \/ DisplayWorkerClear(r)
    \/ DisplayWorkerAfter(r)
    \/ DisplayWorkerExceptClear(r)
    \/ DisplayWorkerExceptAfter(r)
    \/ DisplayWorkerExceptExit(r)
    \/ CopyWorkerClient(r)
    \/ CopyWorkerNoClientClear(r)
    \/ CopyWorkerNoClientAfter(r)
    \/ CopyWorkerCheck(r)
    \/ CopyWorkerCall(r)
    \/ CopyWorkerClear(r)
    \/ CopyWorkerAfter(r)
    \/ CopyWorkerExceptClear(r)
    \/ CopyWorkerExceptAfter(r)
    \/ CopyWorkerExceptExit(r)

AddToHistory(r) ==
    \/ AddToHistoryInsert(r)
    \/ AddToHistorySlice(r)
    \/ AddToHistoryStore(r)
    \/ AddToHistorySave(r)

Callback ==
    \/ CallbackAnimateStatus
    \/ _display_result
    \/ CallbackShowError
    \/ CallbackStatusCopied
    \/ CallbackStatusNoKey
    \/ CallbackStatusError

Next ==
    \/ _enhance_text
    \/ ButtonHandler
    \/ _enhance_selected_text
    \/ HotkeyHandler
    \/ WorkerStart
    \/ \E r \in Requests : Worker(r)
    \/ \E r \in Requests : AddToHistory(r)
    \/ Callback
    \/ \E r \in Requests : TimerAnimateStatus(r)

Spec == Init /\ [][Next]_vars

\* Threads that can run do run: a handler that has started runs on, the
\* pool starts and runs its tasks, the main loop runs its callbacks. The
\* user need not make another request and an animation timer need not fire.
FairSpec ==
    /\ Spec
    /\ WF_vars(ButtonHandler)
    /\ WF_vars(HotkeyHandler)
    /\ WF_vars(WorkerStart)
    /\ WF_vars(Callback)
    /\ \A r \in Requests : WF_vars(Worker(r) \/ AddToHistory(r))

\* ------------------------------------------------ _clean_text on its own
\* Pieces of a model's response: think tags whole, in capitals and in two
\* halves, a letter, a blank, a newline.
Fragments ==
    { ThinkOpen, ThinkClose,
      <<"<", "T", "H", "I", "N", "K", ">">>,
      <<"<", "t", "h", "i">>, <<"n", "k", ">">>,
      <<"x">>, <<" ">>, <<"\n">> }

\* The texts made of at most n fragments.
RECURSIVE Concatenations(_)
Concatenations(n) ==
    IF n = 0 THEN { << >> }
    ELSE Concatenations(n - 1)
            \cup { f \o t : f \in Fragments, t \in Concatenations(n - 1) }

\* completion.choices[0].message.content, handed to _clean_text
CleanInit ==
    /\ InitPipeline
    /\ _api_key = "key"
    /\ _enhancement_history = << >>
    /\ message_content \in Concatenations(MaxFragments)
    /\ cleaned = << >>
    /\ InitContext
    /\ InitLookup
    /\ InitKeywords
    /\ InitClient
    /\ InitConfig
    /\ InitVariants

\* return self._clean_text(completion.choices[0].message.content)
CleanTextCall ==
    /\ cleaned = << >>
    /\ cleaned' = << _clean_text(message_content) >>
    /\ UNCHANGED << message_content, main_vars, context_vars, lookup_vars,
                    keyword_vars,
                 client_vars,
                 config_vars,
                 variant_vars >>

CleanNext == CleanTextCall

CleanSpec == CleanInit /\ [][CleanNext]_vars

\* THINK_OPEN_CLOSE_PATTERN.search(s): s holds an opening or closing think
\* tag, the opening tag of a reasoning block included.
HasThinkTag(s) ==
    \E i \in 1 .. Len(s) :
        TagNameEnd(s, i) # 0 /\ FindFrom(s, TagNameEnd(s, i), <<">">>) # 0

\* --------------------------------- _get_enhancement_prompt on its own
\* The codebase: a root directory with the subdirectories .git, .git/hooks,
\* node_modules, src and src/__pycache__, each directory holding
\* MaxFilesPerDir files. Paths, names and contents are sequences of
\* characters.
GitDir == <<".", "g", "i", "t">>
HooksDir == <<"h", "o", "o", "k", "s">>
NodeModulesDir == <<"n", "o", "d", "e", "_", "m", "o", "d", "u", "l", "e", "s">>
SrcDir == <<"s", "r", "c">>
PyCacheDir == <<"_", "_", "p", "y", "c", "a", "c", "h", "e", "_", "_">>

\* os.path.join(a, b)
Join(a, b) == a \o <<"/">> \o b

\* The directories below the root, top-down, in two of the orders in which
\* os.walk may yield them (the order of a directory's entries is the file
\* system's); the root itself, << >>, comes first.
WalkOrders ==
    { << << >>, GitDir, Join(GitDir, HooksDir), NodeModulesDir,
         SrcDir, Join(SrcDir, PyCacheDir) >>,
      << << >>, SrcDir, Join(SrcDir, PyCacheDir), NodeModulesDir,
         GitDir, Join(GitDir, HooksDir) >> }

\* The codebase roots a user may select: one whose own path has none of
\* the skipped names in it, and one that has.
CodebaseRoots == { <<"/", "r">>, <<"/", "a", ".", "g", "i", "t">> }

\* root of the os.walk triple for the directory rel below base
WalkRoot(base, rel) == IF rel = << >> THEN base ELSE Join(base, rel)

FileDigit(j) == <<"1", "2", "3", "4", "5", "6", "7", "8", "9">>[j]

\* The name of the j-th file of a directory: the odd ones are named after a
\* login module, the even ones are not.
FileName(j) ==
    IF j % 2 = 1
    THEN <<"L", "o", "g", "i", "n", FileDigit(j), ".", "p", "y">>
    ELSE <<"f", FileDigit(j)>>

\* What a file may hold: nothing, the word LOGIN at its start, or the word
\* after SampleSize other characters.
FileContents ==
    { << >>,
      <<"L", "O", "G", "I", "N">>,
      [i \in 1 .. SampleSize |-> "x"] \o <<"l", "o", "g", "i", "n">> }

\* The keyword sets _extract_keywords_from_prompt may give: none, one that
\* names the login files, one that names nothing.
KeywordSets == { {}, { <<"l", "o", "g", "i", "n">> }, { <<"z", "z">> } }

\* str.lower(), for the capitals the names and contents above have.
LowerCase(c) ==
    CASE c = "L" -> "l" [] c = "O" -> "o" [] c = "G" -> "g"
      [] c = "I" -> "i" [] c = "N" -> "n" [] OTHER -> c

lower(s) == [i \in 1 .. Len(s) |-> LowerCase(s[i])]

\* "p in s" for strings: p is a substring of s.
Contains(s, p) ==
    \E i \in 1 .. (Len(s) - Len(p) + 1) :
        \A k \in 1 .. Len(p) : s[i + k - 1] = p[k]

\* any(d in root for d in {'.git', '__pycache__', 'node_modules'})
Skipped(root) ==
    \E d \in {GitDir, PyCacheDir, NodeModulesDir} : Contains(root, d)

\* any(k in s.lower() for k in keywords)
KeywordIn(s, kws) == \E k \in kws : Contains(lower(s), k)

ReadAll(content) == content

\* f.read(512)
ReadSample(content) == Take(content, SampleSize)

AtCapOffByOne(files) == Cardinality(files) > FileCap

\* "if len(relevant_files) >= 10"
AtCap(files) == Cardinality(files) >= FileCap

\* os.path.relpath(p, base), for a path p below base
relpath(p, base) == SubSeq(p, Len(base) + 2, Len(p))

\* [f(p) for p in a_set]: the elements in the set's iteration order, which
\* is arbitrary; one order is modelled.
RECURSIVE ListOf(_)
ListOf(S) ==
    IF S = {} THEN << >>
    ELSE LET x == CHOOSE y \in S : TRUE
         IN  <<x>> \o ListOf(S \ {x})

\* The prompt, as its sections in order: the template up to the example,
\* codebase_context, the template's instructions around the text.
ContextSectionAlways(block) == << "Relevant Files" >>

\* codebase_context: empty unless context_str is non-empty
ContextSection(block) ==
    IF block = << >> THEN << >> ELSE << "Relevant Files" >>

PromptSections(block) ==
    << "role", "example" >> \o ContextSection(block)
        \o << "instructions", "text", "output" >>

ContextInit ==
    /\ InitPipeline
    /\ _api_key = "key"
    /\ _enhancement_history = << >>
    /\ InitClean
    /\ _codebase_path \in { << >> } \cup CodebaseRoots
    /\ is_dir \in BOOLEAN
    /\ (_codebase_path = << >>) => ~is_dir
    /\ keywords \in KeywordSets
    /\ walk_order \in WalkOrders
    /\ scan_pc = "idle"
    /\ walk = [dir |-> 0, file |-> 0]
    /\ relevant_files = {}
    /\ examined = NoFile
    /\ context_str = << >>
    /\ prompt = << >>
    /\ InitLookup
    /\ InitKeywords
    /\ InitClient
    /\ InitConfig
    /\ InitVariants

ContextFrame ==
    UNCHANGED << main_vars, clean_vars, lookup_vars, keyword_vars,
                 client_vars,
                 config_vars,
                 variant_vars,
                 _codebase_path, is_dir,
                 keywords, walk_order >>

\* _get_enhancement_prompt up to the walk: without a codebase directory
\* nothing is searched; _find_relevant_files returns "" at once when there
\* are no keywords.
GetEnhancementPrompt ==
    /\ scan_pc = "idle"
    /\ scan_pc' = IF _codebase_path # << >> /\ is_dir /\ keywords # {}
                  THEN "walk" ELSE "format"
    /\ UNCHANGED << walk, relevant_files, examined, context_str, prompt >>
    /\ ContextFrame

\* The root, directories and files of the directory the walk is in.
CurrentRoot == WalkRoot(_codebase_path, walk_order[walk.dir])

CurrentFile == FileName(walk.file)

CurrentPath == Join(CurrentRoot, CurrentFile)

\* The end of one iteration of "for file in files".
NextFile ==
    [walk EXCEPT !.file = IF @ < MaxFilesPerDir THEN @ + 1 ELSE 0]

\* "for root, _, files in os.walk(...)": os.walk yields the next directory,
\* whatever its name, and the loop body skips it by its path; when there is
\* none left the loop ends.
WalkDirectory ==
    /\ scan_pc = "walk"
    /\ walk.file = 0
    /\ walk.dir < Len(walk_order)
    /\ LET root == WalkRoot(_codebase_path, walk_order[walk.dir + 1])
       IN  walk' = [dir |-> walk.dir + 1,
                    file |-> IF Skipped(root) THEN 0 ELSE 1]
    /\ examined' = NoFile
    /\ UNCHANGED << scan_pc, relevant_files, context_str, prompt >>
    /\ ContextFrame

WalkEnd ==
    /\ scan_pc = "walk"
    /\ walk.file = 0
    /\ walk.dir = Len(walk_order)
    /\ scan_pc' = "return"
    /\ UNCHANGED << walk, relevant_files, examined, context_str, prompt >>
    /\ ContextFrame

\* "if len(relevant_files) >= 10: break": the rest of this directory is
\* left out, the walk goes on.
FileLoopBreak ==
    /\ scan_pc = "walk"
    /\ walk.file >= 1
    /\ AtCap(relevant_files)
    /\ walk' = [walk EXCEPT !.file = 0]
    /\ examined' = [path |-> CurrentPath, file |-> CurrentFile,
                    op |-> "break", content |-> << >>]
    /\ UNCHANGED << scan_pc, relevant_files, context_str, prompt >>
    /\ ContextFrame

\* "if any(k in file.lower() for k in keywords): add; continue"
AddByName ==
    /\ scan_pc = "walk"
    /\ walk.file >= 1
    /\ ~AtCap(relevant_files)
    /\ KeywordIn(CurrentFile, keywords)
    /\ relevant_files' = relevant_files \cup {CurrentPath}
    /\ examined' = [path |-> CurrentPath, file |-> CurrentFile,
                    op |-> "name", content |-> << >>]
    /\ walk' = NextFile
    /\ UNCHANGED << scan_pc, context_str, prompt >>
    /\ ContextFrame

\* The file is opened and its first 512 characters are searched; a file
\* that cannot be read is passed over.
OpenFile ==
    /\ scan_pc = "walk"
    /\ walk.file >= 1
    /\ ~AtCap(relevant_files)
    /\ ~KeywordIn(CurrentFile, keywords)
    /\ \E readable \in BOOLEAN, content \in FileContents :
          IF ~readable
          THEN /\ examined' = [path |-> CurrentPath, file |-> CurrentFile,
                               op |-> "unreadable", content |-> << >>]
               /\ UNCHANGED relevant_files
          ELSE LET content_sample == ReadSample(content)
               IN  /\ examined' = [path |-> CurrentPath, file |-> CurrentFile,
                                    op |-> "read", content |-> content]
                   /\ relevant_files' =
                        IF KeywordIn(content_sample, keywords)
                        THEN relevant_files \cup {CurrentPath}
                        ELSE relevant_files
    /\ walk' = NextFile
    /\ UNCHANGED << scan_pc, context_str, prompt >>
    /\ ContextFrame

\* The end of _find_relevant_files: "" or the block of relative paths.
FindRelevantFilesReturn ==
    /\ scan_pc = "return"
    /\ context_str' =
         [i \in 1 .. Cardinality(relevant_files) |->
            relpath(ListOf(relevant_files)[i], _codebase_path)]
    /\ scan_pc' = "format"
    /\ UNCHANGED << walk, relevant_files, examined, prompt >>
    /\ ContextFrame

\* template.format(text=text, codebase_context=codebase_context)
FormatPrompt ==
    /\ scan_pc = "format"
    /\ prompt' = PromptSections(context_str)
    /\ scan_pc' = "done"
    /\ UNCHANGED << walk, relevant_files, examined, context_str >>
    /\ ContextFrame

ContextNext ==
    \/ GetEnhancementPrompt
    \/ WalkDirectory
    \/ WalkEnd
    \/ FileLoopBreak
    \/ AddByName
    \/ OpenFile
    \/ FindRelevantFilesReturn
    \/ FormatPrompt

ContextSpec == ContextInit /\ [][ContextNext]_vars

\* ------------------------------------------- the relevance index lookup
\* The lookup in <root>/.enhancer_cache/index.json that precedes the live
\* scan. The index maps lower-cased keywords to lists of paths; the paths
\* are numbered 1 .. MaxIndexPaths.
KwLogin == <<"l", "o", "g", "i", "n">>
KwSave == <<"s", "a", "v", "e">>
KwBug == <<"b", "u", "g">>
KwButton == <<"b", "u", "t", "t", "o", "n">>

IndexKeywords == { KwLogin, KwSave, KwBug, KwButton }

\* The file lists an index entry may hold.
PathLists ==
    { {}, {MaxIndexPaths}, 1 .. (MaxIndexPaths \div 2),
      (MaxIndexPaths \div 2) .. (MaxIndexPaths - 1) }

\* The index files: none, one that does not parse, or a mapping from some
\* of the keywords to file lists.
IndexFiles ==
    { NoIndex, [state |-> "malformed", keys |-> {}, files |-> << >>] }
    \cup { [state |-> "parsed", keys |-> K, files |-> f] :
               K \in SUBSET IndexKeywords, f \in [IndexKeywords -> PathLists] }

LookupInit ==
    /\ InitPipeline
    /\ _api_key = "key"
    /\ _enhancement_history = << >>
    /\ InitClean
    /\ _codebase_path \in CodebaseRoots
    /\ is_dir = TRUE
    /\ keywords = {}
    /\ walk_order \in WalkOrders
    /\ scan_pc = "idle"
    /\ walk = [dir |-> 0, file |-> 0]
    /\ relevant_files = {}
    /\ examined = NoFile
    /\ context_str = << >>
    /\ prompt = << >>
    /\ index_file \in IndexFiles
    /\ index_file.state = "parsed" =>
          \A k \in IndexKeywords \ index_file.keys : index_file.files[k] = {}
    /\ lookup_keywords \in SUBSET IndexKeywords
    /\ lookup_pc = "idle"
    /\ pending_keywords = {}
    /\ lookup_files = {}
    /\ lookup_block = << >>
    /\ lookup_status = ""
    /\ InitKeywords
    /\ InitClient
    /\ InitConfig
    /\ InitVariants

LookupFrame == UNCHANGED << main_vars, clean_vars, context_vars, keyword_vars,
                 client_vars,
                 config_vars,
                 variant_vars,
                            index_file, lookup_keywords >>

\* No index file: the live scan is delegated to, after a status update.
IndexMissing ==
    /\ lookup_pc = "idle"
    /\ index_file.state = "missing"
    /\ lookup_status' = "No index found - performing live search"
    /\ lookup_pc' = "live_scan"
    /\ UNCHANGED << pending_keywords, lookup_files, lookup_block >>
    /\ LookupFrame

IndexMalformedRaises ==
    /\ lookup_pc = "idle"
    /\ index_file.state = "malformed"
    /\ lookup_pc' = "raised"
    /\ UNCHANGED << pending_keywords, lookup_files, lookup_block,
                    lookup_status >>
    /\ LookupFrame

\* The index file does not parse: the error is caught and logged, and the
\* lookup falls through to the live scan.
IndexMalformed ==
    /\ lookup_pc = "idle"
    /\ index_file.state = "malformed"
    /\ lookup_pc' = "live_scan"
    /\ UNCHANGED << pending_keywords, lookup_files, lookup_block,
                    lookup_status >>
    /\ LookupFrame

\* The index file is parsed as a keyword -> file-list mapping.
IndexParsed ==
    /\ lookup_pc = "idle"
    /\ index_file.state = "parsed"
    /\ pending_keywords' = lookup_keywords
    /\ lookup_pc' = "union"
    /\ UNCHANGED << lookup_files, lookup_block, lookup_status >>
    /\ LookupFrame

EntryOfAnyKey(k) == UNION { index_file.files[j] : j \in index_file.keys }

\* The file list the index holds for keyword k, if k is a key.
Entry(k) ==
    IF k \in index_file.keys THEN index_file.files[k] ELSE {}

\* "For each keyword present as a key, union its file list into a
\* relevant-file accumulator."
UnionKeyword ==
    /\ lookup_pc = "union"
    /\ \E k \in pending_keywords :
          /\ lookup_files' = lookup_files \cup Entry(k)
          /\ pending_keywords' = pending_keywords \ {k}
    /\ UNCHANGED << lookup_pc, lookup_block, lookup_status >>
    /\ LookupFrame

\* "If the accumulator is non-empty, format up to 10 entries ... else return
\* empty string."
LookupReturn ==
    /\ lookup_pc = "union"
    /\ pending_keywords = {}
    /\ lookup_block' = Take(ListOf(lookup_files), IndexCap)
    /\ lookup_pc' = "done"
    /\ UNCHANGED << pending_keywords, lookup_files, lookup_status >>
    /\ LookupFrame

\* "delegate to Live Scan (4.3)": _find_relevant_files is called with the
\* keywords of the request; it returns "" at once when there are none.
LiveScan ==
    /\ lookup_pc = "live_scan"
    /\ scan_pc = "idle"
    /\ keywords' = lookup_keywords
    /\ scan_pc' = IF lookup_keywords = {} THEN "format" ELSE "walk"
    /\ lookup_pc' = "scanning"
    /\ UNCHANGED << main_vars, clean_vars, keyword_vars,
                 client_vars,
                 config_vars,
                 variant_vars, _codebase_path,
                    is_dir, walk_order, walk, relevant_files, examined, context_str, prompt,
                    index_file, lookup_keywords, pending_keywords,
                    lookup_files, lookup_block, lookup_status >>

\* The lookup returns what the live scan returned.
LiveScanReturn ==
    /\ lookup_pc = "scanning"
    /\ scan_pc = "format"
    /\ lookup_block' = context_str
    /\ lookup_pc' = "done"
    /\ UNCHANGED << pending_keywords, lookup_files, lookup_status >>
    /\ LookupFrame

LookupNext ==
    \/ IndexMissing
    \/ IndexMalformed
    \/ IndexParsed
    \/ UnionKeyword
    \/ LookupReturn
    \/ LiveScan
    \/ WalkDirectory
    \/ WalkEnd
    \/ FileLoopBreak
    \/ AddByName
    \/ OpenFile
    \/ FindRelevantFilesReturn
    \/ LiveScanReturn

LookupSpec == LookupInit /\ [][LookupNext]_vars

\* ------------------------------------- _extract_keywords_from_prompt
\* The pieces request texts are made of: stop words in lower and upper
\* case, a word that is none, an extension, and separators.
KeywordFragments ==
    { <<"t", "h", "e">>, <<"O", "N">>, <<"a">>,
      <<"l", "o", "g", "i", "n">>, <<".", "p", "y">>,
      <<".">>, <<"/">>, <<"-">>, <<" ">> }

RECURSIVE TextsOf(_)
TextsOf(n) ==
    IF n = 0 THEN { << >> }
    ELSE TextsOf(n - 1)
            \cup { f \o t : f \in KeywordFragments, t \in TextsOf(n - 1) }

\* \w, for the characters of the texts above
IsWordChar(c) == c \notin { ".", "/", "-", " " }

\* [\w\-\./]
IsPathChar(c) == IsWordChar(c) \/ c \in { "-", ".", "/" }

\* The end of the run of word characters that starts at i.
WordRunEnd(s, i) ==
    CHOOSE j \in i .. Len(s) :
        /\ \A k \in i .. j : IsWordChar(s[k])
        /\ j = Len(s) \/ ~IsWordChar(s[j + 1])

\* The end of the match of [\w\-\./]+\.[\w]+ that starts at p, 0 when there
\* is none: the first part takes as many characters as leave a "." and a
\* word character behind it, the last part as many word characters as
\* there are.
MatchEnd(s, p) ==
    LET ks == { k \in p .. (Len(s) - 2) :
                  /\ \A i \in p .. k : IsPathChar(s[i])
                  /\ s[k + 1] = "."
                  /\ IsWordChar(s[k + 2]) }
    IN  IF ks = {} THEN 0
        ELSE WordRunEnd(s, (CHOOSE k \in ks : \A l \in ks : l <= k) + 2)

\* path_pattern.findall(text) from position p on, as a set: the matches are
\* taken left to right and do not overlap.
RECURSIVE findall_paths(_, _)
findall_paths(s, p) ==
    IF p > Len(s) THEN {}
    ELSE IF MatchEnd(s, p) = 0 THEN findall_paths(s, p + 1)
    ELSE { SubSeq(s, p, MatchEnd(s, p)) }
            \cup findall_paths(s, MatchEnd(s, p) + 1)

\* set(re.findall(r'\b\w+\b', s)): the maximal runs of word characters
findall_words(s) ==
    { SubSeq(s, i, WordRunEnd(s, i)) :
        i \in { j \in 1 .. Len(s) :
                  /\ IsWordChar(s[j])
                  /\ j = 1 \/ ~IsWordChar(s[j - 1]) } }

stop_words ==
    { <<"t", "h", "e">>, <<"a">>, <<"a", "n">>, <<"i", "s">>, <<"t", "o">>,
      <<"i", "n">>, <<"o", "n">>, <<"f", "o", "r">>, <<"o", "f">>,
      <<"w", "i", "t", "h">>, <<"a", "n", "d">>, <<"o", "r">>,
      <<"b", "u", "t">> }

paths_of_lowered(text) == findall_paths(lower(text), 1)

\* paths = set(path_pattern.findall(text))
paths(text) == findall_paths(text, 1)

_extract_keywords_keeping_stop_words(text) ==
    findall_words(lower(text)) \cup paths(text)

_extract_keywords_from_prompt(text) ==
    (findall_words(lower(text)) \ stop_words) \cup paths(text)

KeywordInit ==
    /\ InitPipeline
    /\ _api_key = "key"
    /\ _enhancement_history = << >>
    /\ InitClean
    /\ InitContext
    /\ InitLookup
    /\ InitClient
    /\ InitConfig
    /\ InitVariants
    /\ request_text \in TextsOf(MaxTokens)
    /\ extracted = << >>

ExtractKeywords ==
    /\ extracted = << >>
    /\ extracted' = << _extract_keywords_from_prompt(request_text) >>
    /\ UNCHANGED << request_text, main_vars, clean_vars, context_vars,
                    lookup_vars, client_vars,
                 config_vars,
                 variant_vars >>

KeywordNext == ExtractKeywords

KeywordSpec == KeywordInit /\ [][KeywordNext]_vars

\* ------------------------------------ the API client and _save_api_key
\* A pool worker in _enhance_with_groq, which reads the groq_client
\* property twice, and the UI thread in _save_api_key. A step is one read
\* or write of self._groq_client or self._api_key.
ApiKeys == { "key", "key2" }

\* The variables of the pipeline that these steps leave alone.
pipeline_rest == << _is_enhancing, _enhancement_history, history_file,
                    _thread_pool, after_queue, animate_timers, status_label,
                    output_text, clipboard, cpc, creq, nreq, path, wpc, hpc,
                    enhanced, sliced, api_calls, outcome, shown, last_insert >>

ClientInit ==
    /\ InitPipeline
    /\ _enhancement_history = << >>
    /\ InitClean
    /\ InitContext
    /\ InitLookup
    /\ InitKeywords
    /\ InitClient
    /\ InitConfig
    /\ InitVariants

WorkerStepFrame ==
    UNCHANGED << pipeline_rest, clean_vars, context_vars, lookup_vars,
                 keyword_vars, config_vars,
                 variant_vars, save_pc, new_api_key, _api_key >>

SaveStepFrame ==
    UNCHANGED << pipeline_rest, clean_vars, context_vars, lookup_vars,
                 keyword_vars, config_vars,
                 variant_vars, client_pc, client_key, client_got >>

\* groq_client, "if self._groq_client is None and self._api_key": with a
\* client cached or no key the property goes to its return statement.
ClientTest ==
    /\ client_pc \in {"idle", "test2"}
    /\ client_pc' =
         IF _groq_client = "None" /\ _api_key # ""
         THEN (IF client_pc = "idle" THEN "construct1" ELSE "construct2")
         ELSE (IF client_pc = "idle" THEN "return1" ELSE "return2")
    /\ UNCHANGED << client_key, client_got, _groq_client >>
    /\ WorkerStepFrame

\* "Groq(api_key=self._api_key)": the key is read and the client is built
\* from it; the constructor may raise, which the property swallows.
ClientConstruct ==
    /\ client_pc \in {"construct1", "construct2"}
    /\ client_key' = _api_key
    /\ \E constructed \in BOOLEAN :
          client_pc' =
            IF constructed
            THEN (IF client_pc = "construct1" THEN "assign1" ELSE "assign2")
            ELSE (IF client_pc = "construct1" THEN "return1" ELSE "return2")
    /\ UNCHANGED << client_got, _groq_client >>
    /\ WorkerStepFrame

\* "self._groq_client = ..." with the client that was built
ClientAssign ==
    /\ client_pc \in {"assign1", "assign2"}
    /\ _groq_client' = client_key
    /\ client_pc' = IF client_pc = "assign1" THEN "return1" ELSE "return2"
    /\ UNCHANGED << client_key, client_got >>
    /\ WorkerStepFrame

\* "return self._groq_client"
ClientReturn ==
    /\ client_pc \in {"return1", "return2"}
    /\ client_got' = _groq_client
    /\ client_pc' =
         IF client_pc = "return1"
         THEN (IF _groq_client = "None" THEN "idle" ELSE "test2")
         ELSE "call"
    /\ UNCHANGED << client_key, _groq_client >>
    /\ WorkerStepFrame

\* "self.groq_client.chat.completions.create(...)" on what the second read
\* returned; on None the attribute access raises.
ClientCall ==
    /\ client_pc = "call"
    /\ client_pc' = "idle"
    /\ UNCHANGED << client_key, client_got, _groq_client >>
    /\ WorkerStepFrame

\* _save_api_key: the entry is read; an empty one invalidates the client
\* and returns, otherwise Groq(api_key=new_api_key) is tried and raises or
\* not.
SaveApiKeyStart ==
    /\ save_pc = "idle"
    /\ \E k \in ApiKeys \cup {""} :
          /\ new_api_key' = k
          /\ \E test_ok \in BOOLEAN :
                save_pc' = IF k # "" /\ test_ok THEN "set_key"
                                                ELSE "invalidate"
    /\ UNCHANGED << _api_key, _groq_client >>
    /\ SaveStepFrame

\* "self._api_key = new_api_key"
SaveApiKeySet ==
    /\ save_pc = "set_key"
    /\ _api_key' = new_api_key
    /\ save_pc' = "invalidate"
    /\ UNCHANGED << new_api_key, _groq_client >>
    /\ SaveStepFrame

\* _invalidate_client(), "self._groq_client = None"
InvalidateClient ==
    /\ save_pc = "invalidate"
    /\ _groq_client' = "None"
    /\ save_pc' = "idle"
    /\ UNCHANGED << new_api_key, _api_key >>
    /\ SaveStepFrame

ClientNext ==
    \/ ClientTest
    \/ ClientConstruct
    \/ ClientAssign
    \/ ClientReturn
    \/ ClientCall
    \/ SaveApiKeyStart
    \/ SaveApiKeySet
    \/ InvalidateClient

ClientSpec == ClientInit /\ [][ClientNext]_vars

\* ---------------------------------------------------------- _save_config
\* The configuration file on disk while _save_config runs, with the process
\* dying at any point of it and being started again.
Configs == { "defaults", "config1", "config2" }

ConfigInit ==
    /\ InitPipeline
    /\ _api_key = "key"
    /\ _enhancement_history = << >>
    /\ InitClean
    /\ InitContext
    /\ InitLookup
    /\ InitKeywords
    /\ InitClient
    /\ InitVariants
    /\ config_file \in { "missing" } \cup Configs
    /\ temp_file = "missing"
    /\ save_config_pc = "idle"
    /\ config_mem = IF config_file = "missing" THEN "defaults" ELSE config_file
    /\ config_old = config_file
    /\ config_new = config_mem

ConfigFrame ==
    UNCHANGED << main_vars, clean_vars, context_vars, lookup_vars,
                 keyword_vars, client_vars, variant_vars >>

\* A setting is changed in memory (_save_api_key, _on_theme_select,
\* _on_model_select), before _save_config is called.
ChangeSetting ==
    /\ save_config_pc = "idle"
    /\ \E c \in Configs : c # config_mem /\ config_mem' = c
    /\ UNCHANGED << config_file, temp_file, save_config_pc, config_old,
                    config_new >>
    /\ ConfigFrame

\* "with open(temp_file, 'w', ...)": the temporary file is created or
\* truncated.
SaveConfigOpenTemp ==
    /\ save_config_pc = "idle"
    /\ config_new' = config_mem
    /\ config_old' = config_file
    /\ temp_file' = "partial"
    /\ save_config_pc' = "dump"
    /\ UNCHANGED << config_file, config_mem >>
    /\ ConfigFrame

\* "json.dump(config, f, indent=4)" and the close of the file
SaveConfigDump ==
    /\ save_config_pc = "dump"
    /\ temp_file' = config_new
    /\ save_config_pc' = "remove"
    /\ UNCHANGED << config_file, config_mem, config_old, config_new >>
    /\ ConfigFrame

\* "if os.path.exists(self._config_file): os.remove(self._config_file)"
SaveConfigRemove ==
    /\ save_config_pc = "remove"
    /\ config_file' = "missing"
    /\ save_config_pc' = "rename"
    /\ UNCHANGED << temp_file, config_mem, config_old, config_new >>
    /\ ConfigFrame

\* "os.rename(temp_file, self._config_file)", then the cache update
SaveConfigRename ==
    /\ save_config_pc = "rename"
    /\ config_file' = temp_file
    /\ temp_file' = "missing"
    /\ save_config_pc' = "idle"
    /\ UNCHANGED << config_mem, config_old, config_new >>
    /\ ConfigFrame

\* The process dies inside _save_config.
Crash ==
    /\ save_config_pc \in { "dump", "remove", "rename" }
    /\ save_config_pc' = "crashed"
    /\ UNCHANGED << config_file, temp_file, config_mem, config_old,
                    config_new >>
    /\ ConfigFrame

\* The program is started again: _load_config returns at once when there
\* is no config file and the defaults of __init__ stay, otherwise the file
\* is loaded.
Restart ==
    /\ save_config_pc = "crashed"
    /\ config_mem' = IF config_file = "missing" THEN "defaults"
                                                 ELSE config_file
    /\ save_config_pc' = "idle"
    /\ UNCHANGED << config_file, temp_file, config_old, config_new >>
    /\ ConfigFrame

ConfigNext ==
    \/ ChangeSetting
    \/ SaveConfigOpenTemp
    \/ SaveConfigDump
    \/ SaveConfigRemove
    \/ SaveConfigRename
    \/ Crash
    \/ Restart

ConfigSpec == ConfigInit /\ [][ConfigNext]_vars

\* ------------------------------------------------- the variants, side by side
\* prompt_enhancer.py, english_enhancer.py and test_enhancer.py given the
\* same sequence of button requests, hotkey requests and worker
\* completions. Each handler is one step. For test_enhancer.py the output
\* area, status label and clipboard are modelled too.

\* prompt_enhancer.py, _enhance_text and _enhance_selected_text: rejected
\* when the flag is set, nothing to do when the text is empty, else the
\* flag is set and a worker submitted.
PromptRequest(st, nonempty) ==
    IF st.flag THEN [st EXCEPT !.last = "rejected"]
    ELSE IF ~nonempty THEN [st EXCEPT !.last = "nothing"]
    ELSE [flag |-> TRUE, inflight |-> st.inflight + 1, last |-> "accepted"]

\* english_enhancer.py, enhance_text and enhance_selected_text
EnglishRequest(st, nonempty) ==
    IF st.flag THEN [st EXCEPT !.last = "rejected"]
    ELSE IF ~nonempty THEN [st EXCEPT !.last = "nothing"]
    ELSE [flag |-> TRUE, inflight |-> st.inflight + 1, last |-> "accepted"]

\* test_enhancer.py, enhance_text and enhance_selected_text: there is no
\* in-flight flag; every request with text starts a call.
TestRequest(st, nonempty) ==
    IF ~nonempty THEN [st EXCEPT !.last = "nothing"]
    ELSE [flag |-> FALSE, inflight |-> st.inflight + 1, last |-> "accepted"]

VariantRequest(v, st, nonempty) ==
    CASE v = "prompt_enhancer" -> PromptRequest(st, nonempty)
      [] v = "english_enhancer" -> EnglishRequest(st, nonempty)
      [] v = "test_enhancer" -> TestRequest(st, nonempty)

\* The end of a worker: prompt_enhancer.py and english_enhancer.py clear the
\* flag on every path of their workers; test_enhancer.py has none to clear.
VariantCompletion(v, st) ==
    IF st.inflight = 0 THEN st
    ELSE [flag |-> FALSE, inflight |-> st.inflight - 1, last |-> st.last]

\* What test_enhancer.py's enhance_with_groq returns: the cleaned
\* completion, or the text of an error.
TestResults(key) ==
    IF key = "" THEN { "Error: Please set your Groq API key first" }
    ELSE { "enhanced text", "Error: Invalid API key", "Error enhancing text" }

IsErrorText(t) ==
    t \in { "Error: Please set your Groq API key first",
            "Error: Invalid API key", "Error enhancing text" }

VariantInit ==
    /\ InitPipeline
    /\ _enhancement_history = << >>
    /\ InitClean
    /\ InitContext
    /\ InitLookup
    /\ InitKeywords
    /\ InitClient
    /\ InitConfig
    /\ InitVariants

VariantFrame ==
    UNCHANGED << main_vars, clean_vars, context_vars, lookup_vars,
                 keyword_vars, client_vars, config_vars >>

\* The Enhance button is pressed in each program.
ButtonRequest ==
    /\ vreq < MaxRequests
    /\ vreq' = vreq + 1
    /\ \E nonempty \in BOOLEAN :
          /\ variant' = [v \in Variants |->
                            VariantRequest(v, variant[v], nonempty)]
          /\ IF nonempty
             THEN /\ t_status' = "Enhancing text..."
                  /\ t_running' = [t_running EXCEPT !.button = @ + 1]
             ELSE UNCHANGED << t_status, t_running >>
    /\ UNCHANGED << t_after, t_output, t_clipboard >>
    /\ VariantFrame

\* The hotkey is pressed in each program; test_enhancer.py makes the call
\* on the hotkey thread itself.
HotkeyRequest ==
    /\ vreq < MaxRequests
    /\ vreq' = vreq + 1
    /\ \E nonempty \in BOOLEAN :
          /\ variant' = [v \in Variants |->
                            VariantRequest(v, variant[v], nonempty)]
          /\ IF nonempty
             THEN /\ t_status' = "Enhancing clipboard text..."
                  /\ t_running' = [t_running EXCEPT !.hotkey = @ + 1]
             ELSE /\ t_status' = "Clipboard is empty. Copy some text first."
                  /\ UNCHANGED t_running
    /\ UNCHANGED << t_after, t_output, t_clipboard >>
    /\ VariantFrame

\* A worker of each program that has one in flight ends. In
\* test_enhancer.py, _enhance_and_display hands what enhance_with_groq
\* returned to _display_result.
ButtonCompletion ==
    /\ t_running.button > 0
    /\ \E enhanced_text \in TestResults(_api_key) :
          t_after' = Append(t_after, enhanced_text)
    /\ t_running' = [t_running EXCEPT !.button = @ - 1]
    /\ variant' = [v \in Variants |-> VariantCompletion(v, variant[v])]
    /\ UNCHANGED << vreq, t_output, t_status, t_clipboard >>
    /\ VariantFrame

\* In test_enhancer.py, enhance_selected_text copies what enhance_with_groq
\* returned to the clipboard.
HotkeyCompletion ==
    /\ t_running.hotkey > 0
    /\ \E enhanced_text \in TestResults(_api_key) :
          t_clipboard' = enhanced_text
    /\ t_status' = "Enhanced text copied to clipboard!"
    /\ t_running' = [t_running EXCEPT !.hotkey = @ - 1]
    /\ variant' = [v \in Variants |-> VariantCompletion(v, variant[v])]
    /\ UNCHANGED << vreq, t_after, t_output >>
    /\ VariantFrame

\* test_enhancer.py, _display_result
TestDisplayResult ==
    /\ t_after # << >>
    /\ t_output' = Head(t_after)
    /\ t_status' = "Text enhanced successfully!"
    /\ t_after' = Tail(t_after)
    /\ UNCHANGED << variant, vreq, t_running, t_clipboard >>
    /\ VariantFrame

VariantNext ==
    \/ ButtonRequest
    \/ HotkeyRequest
    \/ ButtonCompletion
    \/ HotkeyCompletion
    \/ TestDisplayResult

VariantSpec == VariantInit /\ [][VariantNext]_vars

\* ------------------------------------------------------------- properties
\* The step in which an entry point is called: the call is request r.
CallOf(r) == nreq = r - 1 /\ nreq' = r

\* No handler is running, no task is queued or running, no _add_to_history
\* call is under way.
NoneInFlight ==
    /\ \A c \in Callers : cpc[c] = "idle"
    /\ \A r \in Requests : wpc[r] \in {"none", "done"}
    /\ \A r \in Requests : hpc[r] \in {"none", "done"}

\* Where a running worker is before its "self._is_enhancing = False".
BeforeClear ==
    {"dw_enhance", "dw_call", "dw_clear", "dw_exc_clear",
     "cw_client", "cw_enhance", "cw_call", "cw_clear", "cw_nc_clear",
     "cw_exc_clear"}

\* C1: at most one enhancement worker task is executing at any moment,
\* whatever the interleaving of calls to _enhance_text and
\* _enhance_selected_text.
C1_AtMostOneWorker == Cardinality(RunningWorkers) <= 1

\* C2: a call of either entry point made while _is_enhancing is true is
\* rejected: the call returns in its first step (its thread is where it
\* was, the read of the input box or the clipboard is not reached), it
\* submits no task and queues no callback, and no other state changes.
C2_RejectedWhileEnhancing ==
    [][\A r \in Requests :
         (CallOf(r) /\ _is_enhancing)
            => /\ outcome'[r] = "rejected"
               /\ UNCHANGED << cpc, creq >>
               /\ UNCHANGED << _is_enhancing, _thread_pool, after_queue, wpc, hpc,
                               animate_timers, status_label, output_text,
                               clipboard, api_calls, _enhancement_history,
                               history_file >>]_vars

\* A call has been rejected while the request that made it so is in flight.
C2_Witness ==
    \E r \in Requests : outcome[r] = "rejected" /\ _is_enhancing /\ nreq = r

\* C3: a worker is submitted only for a request for which the flag has been
\* set to true, and whenever a worker runs, whatever its outcome (success,
\* API exception, no client), the flag is eventually false again.
C3_FlagSetThenCleared ==
    /\ [][\A r \in Requests :
            /\ (outcome[r] # "accepted" /\ outcome'[r] = "accepted") => _is_enhancing'
            /\ (wpc[r] = "none" /\ wpc'[r] # "none")
                  => outcome[r] = "accepted" /\ wpc'[r] = "queued"]_vars
    /\ \A r \in Requests : (wpc[r] \in BeforeClear) ~> ~_is_enhancing

\* Two workers have run to their end, one after a successful call and one
\* after a failed one, and the flag is false.
C3_Witness ==
    /\ ~_is_enhancing
    /\ \E r, q \in Requests :
          /\ wpc[r] = "done" /\ outcome[r] = "success"
          /\ wpc[q] = "done" /\ outcome[q] \in {"api_error", "no_client"}

\* C4: after an exception in _enhance_text or _enhance_selected_text, one
\* raised by _animate_status or by the pool's submit included, the flag is
\* false once nothing is in flight (so the next request is accepted).
C4_FlagClearedOnEveryExit ==
    (NoneInFlight /\ \E r \in Requests : outcome[r] = "raised") => ~_is_enhancing

\* C5, as stated: a rejected request delivers a "still enhancing" signal,
\* a status update or a return value other than that of an accepted call.
C5_RejectionSignalled ==
    [][\A r \in Requests :
         (CallOf(r) /\ outcome'[r] = "rejected")
            => \/ status_label' # status_label
               \/ ReturnValue("rejected") # ReturnValue("submitted")]_vars

\* C5, amended: a rejected request is silent. The call returns what an
\* accepted one returns, and the status label, the output box, the message
\* shown for any request and the pending callbacks and timers are unchanged.
C5_RejectionSilent ==
    [][\A r \in Requests :
         (CallOf(r) /\ outcome'[r] = "rejected")
            => /\ ReturnValue("rejected") = ReturnValue("submitted")
               /\ UNCHANGED << status_label, output_text, shown, after_queue,
                               animate_timers >>]_vars

\* A hotkey request has been rejected while a request is in flight.
C5_Witness ==
    \E r \in Requests : outcome[r] = "rejected" /\ path[r] = "hotkey" /\ _is_enhancing

\* Where the worker of a failed request is: in its except block (or, on the
\* hotkey path without a client, in the early return) or at its end.
FailurePath ==
    {"dw_exc_clear", "dw_exc_after", "dw_exc_exit",
     "cw_nc_clear", "cw_nc_after",
     "cw_exc_clear", "cw_exc_after", "cw_exc_exit", "done"}

\* A step of request r: of its worker, of its _add_to_history call or of the
\* callback that shows its result.
StepOf(r) == wpc'[r] # wpc[r] \/ hpc'[r] # hpc[r] \/ shown'[r] # shown[r]

\* A callback of request r, other than an animation tick, is still to run.
CallbackPending(r) ==
    \E i \in DOMAIN after_queue :
        after_queue[i].req = r /\ after_queue[i].kind # "animate"

\* C6: when the API call of an accepted request fails, on either path, the
\* worker goes to its except block, where its next step clears the flag;
\* no step of the request changes the history or its file, and no
\* _add_to_history call is made for it.
C6_ApiFailureLeavesHistory ==
    /\ [][\A r \in Requests :
            /\ (outcome'[r] = "api_error" /\ StepOf(r))
                  => UNCHANGED << _enhancement_history, history_file >>
            /\ (outcome[r] = "api_error" /\ wpc'[r] # wpc[r]
                   /\ wpc[r] \in {"dw_exc_clear", "cw_exc_clear"})
                  => ~_is_enhancing']_vars
    /\ [](\A r \in Requests :
            outcome[r] = "api_error"
               => /\ hpc[r] = "none"
                  /\ wpc[r] \in FailurePath \ {"cw_nc_clear", "cw_nc_after"})

\* The API call of a hotkey request and the API call of a button request
\* have failed, both workers have ended, the history is as it was loaded.
C6_Witness ==
    /\ ~_is_enhancing
    /\ _enhancement_history = history_file
    /\ Len(_enhancement_history) = HistoryCap
    /\ \E r, q \in Requests :
          /\ path[r] = "button" /\ path[q] = "hotkey"
          /\ \A x \in {r, q} :
                outcome[x] = "api_error" /\ api_calls[x] = 1 /\ wpc[x] = "done"

\* C7: a request that finds no client (groq_client yields None) fails, on
\* the failure path of its worker, without a call of
\* chat.completions.create and without a history entry; and no request
\* makes that call while no API key is configured.
C7_NoClientNoApiCall ==
    \A r \in Requests :
        /\ outcome[r] = "no_client"
              => api_calls[r] = 0 /\ wpc[r] \in FailurePath /\ hpc[r] = "none"
        /\ api_calls[r] > 0 => _api_key # ""

\* With no key configured, a button request and a hotkey request have both
\* failed for want of a client.
C7_Witness ==
    /\ _api_key = ""
    /\ \E r, q \in Requests :
          /\ path[r] = "button" /\ path[q] = "hotkey"
          /\ \A x \in {r, q} : outcome[x] = "no_client" /\ wpc[x] = "done"

\* C8: every failure of an accepted request (no client, API error), on
\* either path, ends with a message describing it shown to the user, and
\* the flag is false once nothing is in flight.
C8_FailureMessageShown ==
    \A r \in Requests :
        (outcome[r] \in {"no_client", "api_error"} /\ wpc[r] = "done"
           /\ ~CallbackPending(r))
           => /\ shown[r] \in {"API Error", "API Error: e", "API Key is not set."}
              /\ NoneInFlight => ~_is_enhancing

C10_MostRecentFirst ==
    ((\A r \in Requests : hpc[r] \in {"none", "done"}) /\ last_insert # << >>)
       => /\ Len(_enhancement_history) <= HistoryCap
          /\ _enhancement_history[1] = last_insert

\* A step of the UI thread: no worker and no hotkey handler moves, and an
\* _add_to_history call that moves is the one made by _display_result.
OnUIThread ==
    /\ wpc' = wpc
    /\ cpc'["hk"] = cpc["hk"]
    /\ \A r \in Requests : hpc'[r] # hpc[r] => path[r] = "button"

\* Request r is in its completion handling: the clipboard holds its result
\* and the history call is to come, or its _add_to_history call is under way.
InCompletion(r) ==
    \/ wpc[r] = "cw_after"
    \/ hpc[r] \in {"insert", "slice", "store", "save"}

\* C11: every change of the status label, the output box, the in-memory
\* history or the history file is made by a step of the UI thread, never
\* by a pool worker or by the hotkey thread.
C11_MutationsOnUIThread ==
    [][(\/ status_label' # status_label
        \/ output_text' # output_text
        \/ _enhancement_history' # _enhancement_history
        \/ history_file' # history_file) => OnUIThread]_vars

\* C12: at most one request is in its completion handling (clipboard copy
\* done, history append) at any moment.
C12_OneCompletionAtATime ==
    Cardinality({ r \in Requests : InCompletion(r) }) <= 1

\* C13: no request causes more than one call of chat.completions.create,
\* whether the call succeeds or fails.
C13_NoRetry == \A r \in Requests : api_calls[r] <= 1

\* The API call of a button request and that of a hotkey request have
\* failed, both workers have ended, and each made one call.
C13_Witness ==
    \E r, q \in Requests :
        /\ path[r] = "button" /\ path[q] = "hotkey"
        /\ \A x \in {r, q} :
              outcome[x] = "api_error" /\ wpc[x] = "done" /\ api_calls[x] = 1
              /\ ~CallbackPending(x)

\* C14: cleaning is idempotent: what _clean_text returns is returned
\* unchanged when it is cleaned again.
C14_CleanIdempotent ==
    cleaned # << >> => _clean_text(cleaned[1]) = cleaned[1]

\* C15: what _clean_text returns holds no think tag, opening or closing, in
\* any letter case, whatever the input.
C15_NoThinkTagLeft ==
    cleaned # << >> => ~HasThinkTag(cleaned[1])

\* C16: the live scan never holds more than 10 files: the accumulator has
\* at most 10 entries at every point of the walk, however many files match
\* and wherever they are, and the block returned lists at most 10.
C16_AtMostTenFiles ==
    /\ Cardinality(relevant_files) <= FileCap
    /\ Len(context_str) <= FileCap

\* The accumulator is full and a further file of the directory was left out.
C16_Witness ==
    /\ examined.op = "break"
    /\ Cardinality(relevant_files) = FileCap

\* C17: the live scan skips every subtree whose path contains .git,
\* __pycache__ or node_modules: the walk never visits a directory of such a
\* subtree below the root, and no file under one is opened or returned.
C17_SkippedSubtreeNeverVisited ==
    /\ (scan_pc = "walk" /\ walk.dir >= 2) => ~Skipped(CurrentRoot)
    /\ examined.path # << >> => ~Skipped(examined.path)
    /\ \A p \in relevant_files : ~Skipped(p)

\* C18: a file enters the result only when a keyword is a substring of its
\* lower-cased name or of the lower-cased first 512 characters of its
\* content; a file that cannot be read is passed over and the scan goes on
\* with the next one; the block returned lists each collected file once.
C18_OnlyMatchedFiles ==
    [][ /\ \A p \in relevant_files' \ relevant_files :
              /\ p = examined'.path
              /\ \E k \in keywords :
                    \/ Contains(lower(examined'.file), k)
                    \/ /\ examined'.op = "read"
                       /\ Contains(lower(Take(examined'.content, SampleSize)), k)
        /\ examined'.op = "unreadable" /\ examined' # examined =>
              /\ relevant_files' = relevant_files
              /\ scan_pc' = "walk"
              /\ walk'.dir = walk.dir
              /\ walk'.file = IF walk.file < MaxFilesPerDir
                              THEN walk.file + 1 ELSE 0
        /\ context_str' # context_str =>
              /\ \A i, j \in 1 .. Len(context_str') :
                    context_str'[i] = context_str'[j] => i = j
              /\ { context_str'[i] : i \in 1 .. Len(context_str') } =
                    { relpath(q, _codebase_path) : q \in relevant_files }
      ]_vars

\* A file matched by name and one matched by content are held, and a file
\* that could not be read has just been passed over.
C18_Witness ==
    /\ examined.op = "unreadable"
    /\ \E p, q \in relevant_files :
          /\ KeywordIn(p, keywords)
          /\ ~KeywordIn(q, keywords)

\* The "Relevant Files" sections of a prompt.
SectionCount(p) == Cardinality({ i \in 1 .. Len(p) : p[i] = "Relevant Files" })

\* C19: the prompt built for a request has a "Relevant Files" section exactly
\* when a codebase root is set, the root is an existing directory and the
\* relevance search returned a non-empty block; it then has exactly one
\* such section, and none otherwise.
C19_SectionIffContext ==
    scan_pc = "done" =>
        SectionCount(prompt) =
            IF _codebase_path # << >> /\ is_dir /\ context_str # << >>
            THEN 1 ELSE 0

\* A prompt with the section has been built.
C19_Witness ==
    /\ scan_pc = "done"
    /\ SectionCount(prompt) = 1
    /\ relevant_files # {}

\* The union of the index file lists of the request's keywords that are
\* keys of the index.
IndexMatched ==
    UNION { index_file.files[k] : k \in lookup_keywords \cap index_file.keys }

\* C20: when an index file exists under the codebase root, the lookup
\* returns the union of the index file lists of the keywords that are keys
\* of the index, at most 10 entries of it, and lists no path that is not
\* index-matched.
C20_IndexLookupIsUnion ==
    (lookup_pc = "done" /\ index_file.state = "parsed") =>
        LET listed == { lookup_block[i] : i \in 1 .. Len(lookup_block) }
        IN  /\ listed \subseteq IndexMatched
            /\ Cardinality(IndexMatched) <= IndexCap => listed = IndexMatched
            /\ Cardinality(listed) =
                  IF Cardinality(IndexMatched) <= IndexCap
                  THEN Cardinality(IndexMatched) ELSE IndexCap
            /\ Len(lookup_block) = Cardinality(listed)

\* A lookup has returned 10 of the more than 10 paths that the lists of two
\* keys hold, with a keyword that is no key of the index, and with a key
\* that is no keyword and lists a path of its own.
C20_Witness ==
    /\ lookup_pc = "done"
    /\ Len(lookup_block) = IndexCap
    /\ Cardinality(IndexMatched) > IndexCap
    /\ Cardinality(lookup_keywords \cap index_file.keys) = 2
    /\ lookup_keywords \ index_file.keys # {}
    /\ \E k \in index_file.keys \ lookup_keywords :
          ~(index_file.files[k] \subseteq IndexMatched)

\* C21: when the index file is missing or malformed the lookup does not
\* raise to the caller: it falls through to the live scan, and what it
\* returns is what the live scan returned, so that the request goes on.
C21_FallsThroughToLiveScan ==
    /\ lookup_pc # "raised"
    /\ (index_file.state # "parsed" /\ lookup_pc = "done") =>
          /\ scan_pc = "format"
          /\ lookup_block = context_str
          /\ Len(context_str) = Cardinality(relevant_files)

\* A lookup over a malformed index has returned the files the live scan
\* found.
C21_Witness ==
    /\ index_file.state = "malformed"
    /\ lookup_pc = "done"
    /\ lookup_block # << >>
    /\ relevant_files # {}

\* s, all of it, matches the path-like pattern [\w\-\./]+\.[\w]+
IsPathLike(s) ==
    \E d \in 2 .. (Len(s) - 1) :
        /\ s[d] = "."
        /\ \A i \in 1 .. (d - 1) : IsPathChar(s[i])
        /\ \A i \in (d + 1) .. Len(s) : IsWordChar(s[i])

\* The substrings of the request text that match the path-like pattern, as
\* pairs of their first and last position.
PathLikeAt ==
    { ij \in (1 .. Len(request_text)) \X (1 .. Len(request_text)) :
        ij[1] <= ij[2] /\ IsPathLike(SubSeq(request_text, ij[1], ij[2])) }

\* C22: for every request text, every substring of it that matches the
\* path-like pattern is, exactly as it stands, an element of the set
\* _extract_keywords_from_prompt returns.
C22_EveryPathLikeSubstring ==
    extracted # << >> =>
        \A ij \in PathLikeAt :
            SubSeq(request_text, ij[1], ij[2]) \in extracted[1]

\* C22, amended: every path-like substring that is not part of a longer
\* one is an element of the set exactly as it stands, and every other
\* path-like substring is part of an element of the set.
C22_EveryMaximalPathLikeSubstring ==
    extracted # << >> =>
        \A ij \in PathLikeAt :
            /\ \E e \in extracted[1] :
                  Contains(e, SubSeq(request_text, ij[1], ij[2]))
            /\ (\A kl \in PathLikeAt :
                    (kl[1] <= ij[1] /\ ij[2] <= kl[2]) => kl = ij)
                 => SubSeq(request_text, ij[1], ij[2]) \in extracted[1]

\* The keywords of a text with a path in upper and lower case and a
\* directory before it have been extracted.
C22_Witness ==
    /\ extracted # << >>
    /\ request_text = <<"a", "/", "O", "N", ".", "p", "y">>
    /\ request_text \in extracted[1]

\* C23: a text made only of stop words, with no path-like substring, gives
\* the empty keyword set, the empty text gives the empty set, and no stop
\* word is in the keyword set of a text without path-like substrings.
C23_StopWordsRemoved ==
    (extracted # << >> /\ PathLikeAt = {}) =>
        /\ extracted[1] \cap stop_words = {}
        /\ request_text = << >> => extracted[1] = {}
        /\ findall_words(lower(request_text)) \subseteq stop_words
              => extracted[1] = {}

\* The keywords of "the ON a" have been extracted.
C23_Witness ==
    /\ extracted = << {} >>
    /\ request_text = <<"t", "h", "e", " ", "O", "N">>

\* C24: whenever a cached client exists it was built from the current API
\* key: once _save_api_key has returned, self._groq_client is None or a
\* client of self._api_key, and the client an API call is made on is one
\* of the current key, also when the worker's lazy construction
\* interleaves with _save_api_key.
C24_ClientOfCurrentKey ==
    /\ (save_pc = "idle" /\ _groq_client # "None") => _groq_client = _api_key
    /\ (save_pc = "idle" /\ client_pc = "call" /\ client_got # "None")
          => client_got = _api_key

\* C25: _save_config is an atomic write: at every step of a save, and so
\* after a crash at any step, the config path holds the complete previous
\* configuration or the complete new one, never a missing or partial file.
C25_ConfigOldOrNew ==
    save_config_pc # "idle" =>
        /\ config_file \in { config_old, config_new }
        /\ config_old # "missing" => config_file \notin { "missing", "partial" }

\* C26: in test_enhancer.py a missing credential or an API failure is never
\* delivered as an enhancement result: the error text is not in the output
\* area under the status "Text enhanced successfully!" and is not copied
\* to the clipboard as enhanced text.
C26_ErrorNotDeliveredAsResult ==
    /\ ~(IsErrorText(t_output) /\ t_status = "Text enhanced successfully!")
    /\ ~IsErrorText(t_clipboard)

\* C27: given the same sequence of button requests, hotkey requests and
\* worker completions, english_enhancer.py and test_enhancer.py accept and
\* reject the same requests as prompt_enhancer.py and hold the same
\* in-flight flag after each step.
C27_VariantsAgree ==
    \A v \in Variants :
        /\ variant[v].last = variant["prompt_enhancer"].last
        /\ variant[v].flag = variant["prompt_enhancer"].flag

\* C28: a request with nothing to enhance changes no pipeline state: the
\* call of _enhance_text with an empty or whitespace-only input, and of
\* _enhance_selected_text with an empty or whitespace-only clipboard,
\* leaves the in-flight flag as it is (false, when no other request is
\* about), submits no worker, makes no API call and leaves the history and
\* its file unchanged.
C28_NothingToEnhanceChangesNothing ==
    /\ [][\A r \in Requests :
            (outcome'[r] = "empty" /\ outcome[r] # "empty") =>
                /\ UNCHANGED << _is_enhancing, _thread_pool, wpc, hpc,
                                api_calls, _enhancement_history,
                                history_file, after_queue >>
                /\ nreq = 1 => ~_is_enhancing']_vars
    /\ [](\A r \in Requests :
            outcome[r] = "empty" =>
                wpc[r] = "none" /\ hpc[r] = "none" /\ api_calls[r] = 0)

\* A button request and a hotkey request with nothing to enhance have both
\* returned, and nothing is in flight.
C28_Witness ==
    /\ ~_is_enhancing
    /\ _thread_pool = << >>
    /\ \E r, q \in Requests :
          /\ path[r] = "button" /\ path[q] = "hotkey"
          /\ outcome[r] = "empty" /\ outcome[q] = "empty"

\* The worker of request r has passed its "self._is_enhancing = False".
FlagCleared(r) == wpc[r] \notin BeforeClear \cup {"none", "queued"}

\* C29: at most one _animate_status timer chain is pending at any time, and
\* the tick of a chain whose request has completed does not reschedule
\* itself, also when the next request has been accepted before that tick.
C29_OneAnimationChain ==
    /\ [](Cardinality(animate_timers) <= 1)
    /\ [][\A r \in Requests :
            (FlagCleared(r) /\ TimerAnimateStatus(r)) =>
                r \notin animate_timers']_vars

\* How many entries of the history are the text.
Occurrences(history, text) ==
    Cardinality({ i \in DOMAIN history : history[i] = text })

\* The _add_to_history calls that have inserted the text and have returned.
ReturnedInserts(text) ==
    { r \in Requests : hpc[r] = "done" /\ enhanced[r] = text /\ text # << >> }

\* C30: no history entry is lost to interleaving: once the _add_to_history
\* calls made so far have all returned, whichever threads ran them, the
\* history holds an entry for each of them (two requests are fewer than
\* HistoryCap newer entries), and a history file that holds both is the
\* in-memory history (a file whose last write failed is an older one).
C30_NoHistoryEntryLost ==
    (\A x \in Requests : hpc[x] \in {"none", "done"}) =>
        \A r \in Requests :
            ReturnedInserts(enhanced[r]) # {} =>
                /\ Occurrences(_enhancement_history, enhanced[r])
                       >= Cardinality(ReturnedInserts(enhanced[r]))
                /\ (\A q \in Requests :
                         ReturnedInserts(enhanced[q]) # {} =>
                             Occurrences(history_file, enhanced[q])
                                >= Cardinality(ReturnedInserts(enhanced[q])))
                      => history_file = _enhancement_history

============================================================================
